---- MODULE Spec2Model ----
(***************************************************************************)
(* Model of the MCDC test-case synthesizer of test_case_generator.py.      *)
(*                                                                         *)
(* Text is a sequence of one-character strings, so that the regular        *)
(* expression passes of _parse_condition and the string splitting of       *)
(* extract_expression_structure are computed character by character.       *)
(* Numbers are integers counted in ticks: Scale ticks make 1.0 and Prec    *)
(* ticks make the smallest step a decimal rendering keeps.                 *)
(***************************************************************************)
EXTENDS Integers, Sequences, FiniteSets, TLC

\* ------------------------------------------------------------------ bounds
\* ticks per step of the decimal rendering (as_decimal keeps whole steps)
Prec == 2
\* longest input string of the normalizer specification
MaxLen == 4

\* ticks per unit: a unit is two decimal steps, so 0.5 is a whole step
Scale == 2 * Prec

\* ------------------------------------------------------------ characters
Upper == {"A","B","C","D","E","F","G","H","I","J","K","L","M","N","O","P","Q","R","S","T","U","V","W","X","Y","Z"}
Lower == {"a","b","c","d","e","f","g","h","i","j","k","l","m","n","o","p","q","r","s","t","u","v","w","x","y","z"}
Digits == {"0","1","2","3","4","5","6","7","8","9"}
\* [a-zA-Z_]
IdStart == Upper \cup Lower \cup {"_"}
\* \w
WordChar == IdStart \cup Digits
\* str.split() separators
Space == {" ", "\n", "\t"}

\* text[a:b] with Python's 0-based half-open bounds clipped to the text
Slice(s, a, b) ==
  LET lo == IF a < 0 THEN 0 ELSE a
      hi == IF b > Len(s) THEN Len(s) ELSE b
  IN IF hi <= lo THEN <<>> ELSE SubSeq(s, lo + 1, hi)

\* s.startswith(p) at 0-based offset i
StartsAt(s, i, p) == i + Len(p) <= Len(s) /\ SubSeq(s, i + 1, i + Len(p)) = p

\* str.strip()
RECURSIVE LStrip(_)
LStrip(s) == IF s # <<>> /\ Head(s) \in Space THEN LStrip(Tail(s)) ELSE s
RECURSIVE RStrip(_)
RStrip(s) == IF s # <<>> /\ s[Len(s)] \in Space THEN RStrip(SubSeq(s, 1, Len(s) - 1)) ELSE s
Strip(s) == RStrip(LStrip(s))

\* ''.join(s.split())
RemoveSpaces(s) == SelectSeq(s, LAMBDA c : c \notin Space)

\* ' '.join(s.split())
RECURSIVE CollapseFrom(_, _)
CollapseFrom(s, i) ==
  IF i > Len(s) THEN <<>>
  ELSE IF s[i] \in Space
       THEN IF i > 1 /\ s[i - 1] \in Space THEN CollapseFrom(s, i + 1)
            ELSE <<" ">> \o CollapseFrom(s, i + 1)
       ELSE <<s[i]>> \o CollapseFrom(s, i + 1)
CollapseSpaces(s) == Strip(CollapseFrom(s, 1))

\* re.sub of a literal two-character pattern, leftmost non-overlapping
RECURSIVE SubPair(_, _, _, _)
SubPair(s, c1, c2, rep) ==
  IF Len(s) < 2 THEN s
  ELSE IF s[1] = c1 /\ s[2] = c2
       THEN rep \o SubPair(Tail(Tail(s)), c1, c2, rep)
       ELSE <<s[1]>> \o SubPair(Tail(s), c1, c2, rep)

\* re.sub of one character c with a negative lookbehind set and a negative
\* lookahead set, both looking at the text being scanned
RECURSIVE SubLone(_, _, _, _, _, _)
SubLone(s, i, c, behind, ahead, rep) ==
  IF i > Len(s) THEN <<>>
  ELSE IF /\ s[i] = c
          /\ (i = 1 \/ s[i - 1] \notin behind)
          /\ (i = Len(s) \/ s[i + 1] \notin ahead)
       THEN rep \o SubLone(s, i + 1, c, behind, ahead, rep)
       ELSE <<s[i]>> \o SubLone(s, i + 1, c, behind, ahead, rep)

\* length of the run of \w characters of s that starts at 1-based index i
RECURSIVE WordRun(_, _)
WordRun(s, i) == IF i <= Len(s) /\ s[i] \in WordChar THEN 1 + WordRun(s, i + 1) ELSE 0

\* re.sub(r'last\((\w+)\)', handle_last_function, condition): last(X) -> _X_
RECURSIVE handle_last_function(_)
handle_last_function(s) ==
  IF s = <<>> THEN <<>>
  ELSE LET n == WordRun(s, 6)
       IN IF /\ StartsAt(s, 0, <<"l","a","s","t","(">>)
             /\ n >= 1
             /\ 5 + n < Len(s)
             /\ s[6 + n] = ")"
          THEN <<"_">> \o SubSeq(s, 6, 5 + n) \o <<"_">>
                 \o handle_last_function(SubSeq(s, 7 + n, Len(s)))
          ELSE <<Head(s)>> \o handle_last_function(Tail(s))

\* Normalize with a lone = also rewritten when an = precedes it
Normalize_LoneEq(condition) ==
  LET c0 == handle_last_function(condition)
      c1 == RemoveSpaces(c0)
      c2 == SubPair(c1, "<", "=", <<" ","<","="," ">>)
      c3 == SubPair(c2, ">", "=", <<" ",">","="," ">>)
      c4 == SubPair(c3, "=", "=", <<" ","=","="," ">>)
      c5 == SubPair(c4, "!", "=", <<" ","!","="," ">>)
      c6 == SubPair(c5, "&", "&", <<" ","a","n","d"," ">>)
      c7 == SubPair(c6, "|", "|", <<" ","o","r"," ">>)
      c8 == SubLone(c7, 1, "=", {"<",">","!"}, {"="}, <<" ","=","="," ">>)
      c9 == SubLone(c8, 1, ">", {"<",">"}, {"="}, <<" ",">"," ">>)
      c10 == SubLone(c9, 1, "<", {"<",">"}, {"="}, <<" ","<"," ">>)
      c11 == SubLone(c10, 1, "!", {}, {"="}, <<" ","n","o","t"," ">>)
  IN CollapseSpaces(c11)

\* the text canonicalization of _parse_condition: last() folding, removal of
\* all whitespace, operator rewriting in the source's order, space collapse
Normalize(condition) ==
  LET c0 == handle_last_function(condition)
      c1 == RemoveSpaces(c0)
      c2 == SubPair(c1, "<", "=", <<" ","<","="," ">>)
      c3 == SubPair(c2, ">", "=", <<" ",">","="," ">>)
      c4 == SubPair(c3, "=", "=", <<" ","=","="," ">>)
      c5 == SubPair(c4, "!", "=", <<" ","!","="," ">>)
      c6 == SubPair(c5, "&", "&", <<" ","a","n","d"," ">>)
      c7 == SubPair(c6, "|", "|", <<" ","o","r"," ">>)
      c8 == SubLone(c7, 1, "=", {"=","<",">","!"}, {"="}, <<" ","=","="," ">>)
      c9 == SubLone(c8, 1, ">", {"<",">"}, {"="}, <<" ",">"," ">>)
      c10 == SubLone(c9, 1, "<", {"<",">"}, {"="}, <<" ","<"," ">>)
      c11 == SubLone(c10, 1, "!", {}, {"="}, <<" ","n","o","t"," ">>)
  IN CollapseSpaces(c11)

\* -------------------------------------------------- preprocess_condition
\* str.find(p): 0-based index of the first occurrence at or after i, or -1
RECURSIVE FindFrom(_, _, _)
FindFrom(s, p, i) ==
  IF i + Len(p) > Len(s) THEN -1
  ELSE IF StartsAt(s, i, p) THEN i ELSE FindFrom(s, p, i + 1)
Find(s, p) == FindFrom(s, p, 0)

\* str.replace(old, new)
RECURSIVE Replace(_, _, _)
Replace(s, old, new) ==
  IF s = <<>> THEN <<>>
  ELSE IF StartsAt(s, 0, old) THEN new \o Replace(SubSeq(s, Len(old) + 1, Len(s)), old, new)
       ELSE <<Head(s)>> \o Replace(Tail(s), old, new)

\* length of the run of characters other than ")" that starts at index i
RECURSIVE NonCloseRun(_, _)
NonCloseRun(s, i) == IF i <= Len(s) /\ s[i] # ")" THEN 1 + NonCloseRun(s, i + 1) ELSE 0

\* re.sub(r'abs\(([^)]+)\)', replace_abs, cond)
RECURSIVE replace_abs(_)
replace_abs(s) ==
  IF s = <<>> THEN <<>>
  ELSE LET n == NonCloseRun(s, 5)
           e == SubSeq(s, 5, 4 + n)
       IN IF StartsAt(s, 0, <<"a","b","s","(">>) /\ n >= 1 /\ 4 + n < Len(s)
          THEN <<"(","(">> \o e \o <<")"," ","i","f"," ","(">> \o e
                 \o <<")"," ",">","="," ","0"," ","e","l","s","e"," ","-","(">> \o e \o <<")",")">>
                 \o replace_abs(SubSeq(s, 6 + n, Len(s)))
          ELSE <<Head(s)>> \o replace_abs(Tail(s))

\* re.sub(r'duration\([^)]*\)', replace_duration, cond)
RECURSIVE replace_duration(_)
replace_duration(s) ==
  IF s = <<>> THEN <<>>
  ELSE LET n == NonCloseRun(s, 10)
       IN IF StartsAt(s, 0, <<"d","u","r","a","t","i","o","n","(">>) /\ 9 + n < Len(s)
          THEN <<"T","r","u","e">> \o replace_duration(SubSeq(s, 11 + n, Len(s)))
          ELSE <<Head(s)>> \o replace_duration(Tail(s))

\* length of the run of whitespace that starts at index i
RECURSIVE SpaceRun(_, _)
SpaceRun(s, i) == IF i <= Len(s) /\ s[i] \in Space THEN 1 + SpaceRun(s, i + 1) ELSE 0

\* re.sub(r',\s*ms\s*,', ',', cond)
RECURSIVE StripMs(_)
StripMs(s) ==
  IF s = <<>> THEN <<>>
  ELSE LET a == SpaceRun(s, 2)
           b == SpaceRun(s, 4 + a)
       IN IF /\ Head(s) = ","
             /\ StartsAt(s, 1 + a, <<"m","s">>)
             /\ 3 + a + b < Len(s)
             /\ s[4 + a + b] = ","
          THEN <<",">> \o StripMs(SubSeq(s, 5 + a + b, Len(s)))
          ELSE <<Head(s)>> \o StripMs(Tail(s))

\* the en dash U+2013 of the source, written as one ASCII character here
EnDash == "~"

preprocess_condition(cond) ==
  LET p1 == Replace(Replace(cond, <<"&","&">>, <<" ","a","n","d"," ">>),
                    <<"|","|">>, <<" ","o","r"," ">>)
      p2 == Replace(p1, <<EnDash>>, <<"-">>)
      p3 == replace_abs(p2)
      p4 == replace_duration(p3)
  IN StripMs(p4)

\* ------------------------------------------ extract_expression_structure
OpAnd == <<" ","a","n","d"," ">>
OpOr == <<" ","o","r"," ">>

\* 0-based positions of op at parenthesis depth zero
RECURSIVE FindTopFrom(_, _, _, _)
FindTopFrom(expr, op, i, level) ==
  IF i > Len(expr) - Len(op) THEN <<>>
  ELSE IF expr[i + 1] = "(" THEN FindTopFrom(expr, op, i + 1, level + 1)
  ELSE IF expr[i + 1] = ")" THEN FindTopFrom(expr, op, i + 1, level - 1)
  ELSE IF level = 0 /\ StartsAt(expr, i, op)
       THEN <<i>> \o FindTopFrom(expr, op, i + 1, level)
       ELSE FindTopFrom(expr, op, i + 1, level)
find_top_level_operator(expr, op) == FindTopFrom(expr, op, 0, 0)

RECURSIVE BalancedFrom(_, _, _)
BalancedFrom(s, i, count) ==
  IF i > Len(s) THEN count = 0
  ELSE IF s[i] = "(" THEN BalancedFrom(s, i + 1, count + 1)
  ELSE IF s[i] = ")" THEN (count - 1 >= 0 /\ BalancedFrom(s, i + 1, count - 1))
  ELSE BalancedFrom(s, i + 1, count)
is_balanced_parentheses(s) == BalancedFrom(s, 1, 0)

\* the parts between the split positions: expr[last_pos:pos] ..., expr[last_pos:]
RECURSIVE SplitAt(_, _, _, _)
SplitAt(expr, positions, oplen, last_pos) ==
  IF positions = <<>> THEN <<Slice(expr, last_pos, Len(expr))>>
  ELSE <<Slice(expr, last_pos, Head(positions))>>
         \o SplitAt(expr, Tail(positions), oplen, Head(positions) + oplen)

\* the comparison operators in the order the atom branch tests them
CmpOps == << <<"=","=">>, <<"!","=">>, <<">","=">>, <<"<","=">>, <<">">>, <<"<">> >>

\* the first operator of CmpOps that occurs in expr (0 when none does)
FirstCmp(expr) ==
  LET hits == {k \in 1..Len(CmpOps) : Find(expr, CmpOps[k]) # -1}
  IN IF hits = {} THEN 0 ELSE CHOOSE k \in hits : \A j \in hits : k <= j

\* (left, op, right) of expr.split(op, 1) with both sides stripped
AtomOf(expr, k) ==
  LET op == CmpOps[k]
      j == Find(expr, op)
  IN <<Strip(Slice(expr, 0, j)), op, Strip(Slice(expr, j + Len(op), Len(expr)))>>

\* placeholders[key] = val
PutKey(ph, key, val) == [k \in DOMAIN ph \cup {key} |-> IF k = key THEN val ELSE ph[k]]

\* the key of a composite is its operator and its LEVEL, as in
\* f"OR_EXPR_{level}" and f"AND_EXPR_{level}"
CompositeKey(op, level) == <<op, level>>

\* parse_recursive; the accumulators atomic_conditions and placeholders of the
\* enclosing function are threaded through as st.atoms and st.ph
RECURSIVE parse_recursive(_, _, _)
RECURSIVE ParseParts(_, _, _)
parse_recursive(expr0, level, st) ==
  LET expr == Strip(expr0)
  IN IF /\ Len(expr) >= 1
        /\ Head(expr) = "("
        /\ expr[Len(expr)] = ")"
        /\ is_balanced_parentheses(Slice(expr, 1, Len(expr) - 1))
     THEN parse_recursive(Slice(expr, 1, Len(expr) - 1), level, st)
     ELSE
       LET top_and_pos == find_top_level_operator(expr, OpAnd)
           top_or_pos == find_top_level_operator(expr, OpOr)
       IN IF top_or_pos # <<>>
          THEN LET r == ParseParts(SplitAt(expr, top_or_pos, 4, 0), level + 1,
                                   [st EXCEPT !.subs = <<>>])
                   key == CompositeKey("or", level)
               IN [root |-> key, atoms |-> r.atoms, subs |-> st.subs,
                   ph |-> PutKey(r.ph, key, [op |-> "or", subs |-> r.subs])]
          ELSE IF top_and_pos # <<>>
          THEN LET r == ParseParts(SplitAt(expr, top_and_pos, 5, 0), level + 1,
                                   [st EXCEPT !.subs = <<>>])
                   key == CompositeKey("and", level)
               IN [root |-> key, atoms |-> r.atoms, subs |-> st.subs,
                   ph |-> PutKey(r.ph, key, [op |-> "and", subs |-> r.subs])]
          ELSE LET k == FirstCmp(expr)
                   atoms == IF k = 0 THEN st.atoms ELSE Append(st.atoms, AtomOf(expr, k))
               IN [root |-> <<"ATOM", Len(atoms) - 1>>, atoms |-> atoms,
                   subs |-> st.subs, ph |-> st.ph]
\* [parse_recursive(part, level) for part in parts]
ParseParts(parts, level, st) ==
  IF parts = <<>> THEN st
  ELSE LET r == parse_recursive(Head(parts), level, st)
       IN ParseParts(Tail(parts), level,
                     [root |-> r.root, atoms |-> r.atoms, ph |-> r.ph,
                      subs |-> Append(st.subs, r.root)])

NoKey == <<"NONE", 0>>
EmptyParse == [root |-> NoKey, atoms |-> <<>>, subs |-> <<>>, ph |-> [k \in {} |-> 0]]

\* (atomic_conditions, placeholders, root) = .atoms, .ph, .root
extract_expression_structure(expr_str) == parse_recursive(expr_str, 0, EmptyParse)

\* ---------------------------------------------------- build_z3_expression
\* atomic_conds[idx] with Python indexing (a negative idx counts from the end)
PyIndex(idx, n) == IF idx < 0 THEN idx + n + 1 ELSE idx + 1

\* the boolean structure of build_z3_expression: the value of the expression
\* built for expr_id when atomVal[k] is the value of the k-th atom's branch
RECURSIVE build_z3_expression(_, _, _)
build_z3_expression(expr_id, structure, atomVal) ==
  IF expr_id[1] = "ATOM"
  THEN atomVal[PyIndex(expr_id[2], Len(atomVal))]
  ELSE LET e == structure[expr_id]
       IN IF e.op = "and"
          THEN \A k \in 1..Len(e.subs) : build_z3_expression(e.subs[k], structure, atomVal)
          ELSE \E k \in 1..Len(e.subs) : build_z3_expression(e.subs[k], structure, atomVal)

\* ------------------------------------------------------- decision trees
\* decisions as trees of and/or over comparison atoms, and their C text
MaxLeaves == 4

Leaf == [op |-> "atom", kids |-> <<>>]
Node(op, l, r) == [op |-> op, kids |-> <<l, r>>]

RECURSIVE Trees(_)
Trees(n) ==
  IF n = 1 THEN {Leaf}
  ELSE UNION {{Node(op, l, r) : op \in {"and", "or"}, l \in Trees(k), r \in Trees(n - k)}
               : k \in 1..(n - 1)}
AllTrees == UNION {Trees(n) : n \in 1..MaxLeaves}

RECURSIVE Leaves(_)
Leaves(t) == IF t.op = "atom" THEN 1 ELSE Leaves(t.kids[1]) + Leaves(t.kids[2])

LeafNames == <<"a","b","c","d","e","f","g","h","i","j","k","l">>
LeafOps == << <<">">>, <<"<","=">>, <<"=","=">>, <<"!","=">>, <<"<">>, <<">","=">> >>
\* the text of the i-th atom (i counted from 0): two names of its own
LeafText(i) ==
  <<LeafNames[((2 * i) % Len(LeafNames)) + 1]>>
    \o LeafOps[(i % Len(LeafOps)) + 1]
    \o <<LeafNames[((2 * i + 1) % Len(LeafNames)) + 1]>>

\* C text of tree t whose first leaf is atom number first; a composite child
\* is parenthesized when full is set or when it is an || under an &&
RECURSIVE PrintTree(_, _, _)
PrintTree(t, first, full) ==
  IF t.op = "atom" THEN LeafText(first)
  ELSE LET l == t.kids[1]
           r == t.kids[2]
           wrap(c, s) == IF c.op # "atom" /\ (full \/ (t.op = "and" /\ c.op = "or"))
                         THEN <<"(">> \o s \o <<")">> ELSE s
           sym == IF t.op = "and" THEN <<"&","&">> ELSE <<"|","|">>
       IN wrap(l, PrintTree(l, first, full)) \o sym
            \o wrap(r, PrintTree(r, first + Leaves(l), full))

\* the value of tree t when tv[k+1] is the value of atom number k
RECURSIVE TreeEval(_, _, _)
TreeEval(t, first, tv) ==
  IF t.op = "atom" THEN tv[first + 1]
  ELSE IF t.op = "and"
       THEN TreeEval(t.kids[1], first, tv) /\ TreeEval(t.kids[2], first + Leaves(t.kids[1]), tv)
       ELSE TreeEval(t.kids[1], first, tv) \/ TreeEval(t.kids[2], first + Leaves(t.kids[1]), tv)

\* ------------------------------------------------------------- numbers
\* a number is n/d units with d > 0; a value of t ticks is t/Scale
Q(n, d) == [n |-> n, d |-> d]
Ticks(t) == Q(t, Scale)
QAdd(a, b) == Q(a.n * b.d + b.n * a.d, a.d * b.d)
QSub(a, b) == Q(a.n * b.d - b.n * a.d, a.d * b.d)
QMul(a, b) == Q(a.n * b.n, a.d * b.d)
QLt(a, b) == a.n * b.d < b.n * a.d
QLe(a, b) == a.n * b.d <= b.n * a.d
QEq(a, b) == a.n * b.d = b.n * a.d
QTruthy(a) == a.n # 0
QBool(b) == IF b THEN Q(1, 1) ELSE Q(0, 1)

\* the comparison `a op b`, op being the operator's text
Compare(op, a, b) ==
  IF op = <<"=","=">> THEN QEq(a, b)
  ELSE IF op = <<"!","=">> THEN ~QEq(a, b)
  ELSE IF op = <<">","=">> THEN QLe(b, a)
  ELSE IF op = <<"<","=">> THEN QLe(a, b)
  ELSE IF op = <<">">> THEN QLt(b, a)
  ELSE QLt(a, b)

\* int(x) of a value in ticks: truncation toward zero to whole units
IntTrunc(t) == IF t >= 0 THEN (t \div Scale) * Scale ELSE -(((-t) \div Scale) * Scale)

\* ------------------------------------------------------------- catalog
\* TestDataManager.variables: symbol -> Variable (ranges in ticks)
Var(ty, lo, hi) == [var_type |-> ty, min_value |-> lo, max_value |-> hi]
DM_variables ==
  (<<"A">> :> Var("int", 0, Scale)) @@
  (<<"B">> :> Var("int", 0, Scale)) @@
  (<<"X">> :> Var("real", 0, Scale)) @@
  (<<"C">> :> Var("int", 0, 2 * Scale)) @@
  (<<"E">> :> Var("int", 0, 2 * Scale)) @@
  (<<"a">> :> Var("int", 0, Scale))
\* TestDataManager.constants: symbol -> value (in ticks); K is 0.5, N is 1
DM_constants == (<<"K">> :> Prec) @@ (<<"N">> :> Scale)

\* ------------------------------------------------------ _parse_condition
\* re.findall(r'[a-zA-Z_][a-zA-Z0-9_]*', condition) as a set
RECURSIVE FindIdentifiers(_, _)
FindIdentifiers(s, i) ==
  IF i > Len(s) THEN {}
  ELSE IF s[i] \in IdStart
       THEN LET n == WordRun(s, i)
            IN {SubSeq(s, i, i + n - 1)} \cup FindIdentifiers(s, i + n)
       ELSE FindIdentifiers(s, i + 1)

Keywords == { <<"a","n","d">>, <<"o","r">>, <<"n","o","t">>,
              <<"T","r","u","e">>, <<"F","a","l","s","e">> }
Identifiers(condition) == FindIdentifiers(condition, 1) \ Keywords

is_last_var(identifier) == Head(identifier) = "_" /\ identifier[Len(identifier)] = "_"
original_var_name(identifier) ==
  IF is_last_var(identifier) THEN Slice(identifier, 1, Len(identifier) - 1) ELSE identifier

\* VarEntry that names an alias as the variable it stands for
VarEntry_NoAlias(identifier) ==
  LET orig == original_var_name(identifier)
  IN IF orig \in DOMAIN DM_constants
     THEN [name |-> orig, min_value |-> DM_constants[orig],
           max_value |-> DM_constants[orig], var_type |-> "constant",
           is_last |-> is_last_var(identifier), original_var |-> orig,
           constant_value |-> DM_constants[orig]]
     ELSE [name |-> orig, min_value |-> DM_variables[orig].min_value,
           max_value |-> DM_variables[orig].max_value,
           var_type |-> DM_variables[orig].var_type,
           is_last |-> is_last_var(identifier), original_var |-> orig,
           constant_value |-> 0]

\* the entry _parse_condition appends for an identifier the catalog knows
VarEntry(identifier) ==
  LET orig == original_var_name(identifier)
  IN IF orig \in DOMAIN DM_constants
     THEN [name |-> identifier, min_value |-> DM_constants[orig],
           max_value |-> DM_constants[orig], var_type |-> "constant",
           is_last |-> is_last_var(identifier), original_var |-> orig,
           constant_value |-> DM_constants[orig]]
     ELSE [name |-> identifier, min_value |-> DM_variables[orig].min_value,
           max_value |-> DM_variables[orig].max_value,
           var_type |-> DM_variables[orig].var_type,
           is_last |-> is_last_var(identifier), original_var |-> orig,
           constant_value |-> 0]

Known(identifier) ==
  original_var_name(identifier) \in DOMAIN DM_constants \cup DOMAIN DM_variables

\* the orders in which `for identifier in identifiers` can visit the set
Orders(S) == {f \in [1..Cardinality(S) -> S] : \A i, j \in DOMAIN f : i # j => f[i] # f[j]}

\* the variables list for one visiting order (unknown identifiers only warn)
RECURSIVE VariablesOf(_)
VariablesOf(order) ==
  IF order = <<>> THEN <<>>
  ELSE IF Known(Head(order)) THEN <<VarEntry(Head(order))>> \o VariablesOf(Tail(order))
       ELSE VariablesOf(Tail(order))

\* ------------------------------------------- _generate_mcdc_conditions
Names(variables) == {variables[k].name : k \in DOMAIN variables}
EntryOf(variables, name) ==
  variables[CHOOSE k \in DOMAIN variables :
              variables[k].name = name
              /\ \A j \in DOMAIN variables : variables[j].name = name => k <= j]
IsConstant(variables, name) ==
  \E k \in DOMAIN variables : variables[k].name = name /\ variables[k].var_type = "constant"

\* the sort of z3_vars[name]: IntVal for a constant, else by the catalog type
SortOf(variables, name) ==
  LET e == EntryOf(variables, name)
  IN IF e.var_type = "constant" THEN "int"
     ELSE IF DM_variables[e.original_var].var_type = "int" THEN "int"
     ELSE IF DM_variables[e.original_var].var_type = "bool" THEN "bool"
     ELSE "real"

\* the solver's symbols: every z3_vars entry that is not an IntVal
Symbols(variables) == {n \in Names(variables) : ~IsConstant(variables, n)}

\* the value of z3_vars[name] under model m (m maps symbols to ticks);
\* a constant is IntVal(int(float(constant_value)))
Z3Value(variables, name, m) ==
  IF IsConstant(variables, name)
  THEN Ticks(IntTrunc(EntryOf(variables, name).constant_value))
  ELSE Ticks(m[name])

\* str.split(c)
RECURSIVE SplitChar(_, _)
SplitChar(s, c) ==
  LET j == Find(s, <<c>>)
  IN IF j = -1 THEN <<s>>
     ELSE <<Slice(s, 0, j)>> \o SplitChar(Slice(s, j + 1, Len(s)), c)

ArithOps == <<"+", "-", "*", "/">>

\* resolve_variable: what a side text resolves to. kind "var" is a z3_vars
\* entry, kind "bin" is parts[0] op parts[1] of the first operator character
\* whose parts are all z3_vars entries, kind "none" is unresolved
resolve_variable(variables, var_name) ==
  IF var_name \in Names(variables)
  THEN [kind |-> "var", op |-> "", a |-> var_name, b |-> var_name]
  ELSE LET usable == {k \in 1..Len(ArithOps) :
                        /\ Find(var_name, <<ArithOps[k]>>) # -1
                        /\ LET parts == SplitChar(var_name, ArithOps[k])
                           IN \A p \in DOMAIN parts : Strip(parts[p]) \in Names(variables)}
       IN IF usable = {}
          THEN [kind |-> "none", op |-> "", a |-> <<>>, b |-> <<>>]
          ELSE LET k == CHOOSE k \in usable : \A j \in usable : k <= j
                   parts == SplitChar(var_name, ArithOps[k])
               IN [kind |-> "bin", op |-> ArithOps[k],
                   a |-> Strip(parts[1]), b |-> Strip(parts[2])]

\* the symbol whose model value interprets a division by zero
DivZero == <<"/","0">>

\* Z3's integer division: the remainder is never negative
Z3Div(a, b) == IF b > 0 THEN a \div b ELSE -(a \div (-b))

TermSort(variables, term) ==
  IF term.kind = "var" THEN SortOf(variables, term.a)
  ELSE IF SortOf(variables, term.a) = "int" /\ SortOf(variables, term.b) = "int"
       THEN "int" ELSE "real"

\* the value under model m of the z3 term that resolve_variable returned;
\* `/` between two Int terms is Z3's integer division
TermValue(variables, term, m) ==
  LET a == Z3Value(variables, term.a, m)
      b == Z3Value(variables, term.b, m)
  IN IF term.kind = "var" THEN a
     ELSE IF term.op = "+" THEN QAdd(a, b)
     ELSE IF term.op = "-" THEN QSub(a, b)
     ELSE IF term.op = "*" THEN QMul(a, b)
     ELSE IF b.n = 0 THEN Ticks(m[DivZero])
     ELSE IF TermSort(variables, term) = "int"
          THEN Q(Z3Div(a.n \div a.d, b.n \div b.d), 1)
          ELSE IF b.n > 0 THEN Q(a.n * b.d, a.d * b.n) ELSE Q(-(a.n * b.d), -(a.d * b.n))

\* a Bool-sorted operand of an arithmetic operator or of an ordering, or a
\* Bool compared with a number, makes the z3 bindings raise
TermRaises(variables, term) ==
  term.kind = "bin" /\ "bool" \in {SortOf(variables, term.a), SortOf(variables, term.b)}

Resolved(variables, atom) ==
  /\ resolve_variable(variables, atom[1]).kind # "none"
  /\ resolve_variable(variables, atom[3]).kind # "none"

AtomRaises(variables, atom) ==
  LET l == resolve_variable(variables, atom[1])
      r == resolve_variable(variables, atom[3])
      ls == TermSort(variables, l)
      rs == TermSort(variables, r)
  IN /\ Resolved(variables, atom)
     /\ \/ TermRaises(variables, l)
        \/ TermRaises(variables, r)
        \/ (ls = "bool") # (rs = "bool")
        \/ (ls = "bool" /\ atom[2] \notin {<<"=","=">>, <<"!","=">>})

\* the ATOM_ branch of build_z3_expression under model m: BoolVal(True) when a
\* side does not resolve, else the comparison of the two terms
AtomValue(variables, atom, m) ==
  IF ~Resolved(variables, atom) THEN TRUE
  ELSE Compare(atom[2],
               TermValue(variables, resolve_variable(variables, atom[1]), m),
               TermValue(variables, resolve_variable(variables, atom[3]), m))

\* the atom indices (1-based) that the expression built for expr_id contains
RECURSIVE ExprAtoms(_, _, _)
ExprAtoms(expr_id, structure, n) ==
  IF expr_id[1] = "ATOM" THEN {PyIndex(expr_id[2], n)}
  ELSE UNION {ExprAtoms(structure[expr_id].subs[k], structure, n)
                : k \in DOMAIN structure[expr_id].subs}

\* building the whole expression raises: atomic_conds[-1] of an empty list,
\* or a sort error in one of the atoms the structure refers to
BuildRaises(variables, parsed) ==
  \/ parsed.atoms = <<>>
  \/ \E k \in ExprAtoms(parsed.root, parsed.ph, Len(parsed.atoms)) :
       AtomRaises(variables, parsed.atoms[k])

\* base_expr under model m
BaseValue(variables, parsed, m) ==
  build_z3_expression(parsed.root, parsed.ph,
                      [k \in 1..Len(parsed.atoms) |-> AtomValue(variables, parsed.atoms[k], m)])

\* get_var_name: the first non-constant z3_vars name among the operands of a
\* side, <<>> standing for None
get_var_name(variables, expr) ==
  LET ok(part) == part \in Names(variables) /\ ~IsConstant(variables, part)
      hits == {k \in 1..Len(ArithOps) :
                 /\ Find(expr, <<ArithOps[k]>>) # -1
                 /\ \E p \in DOMAIN SplitChar(expr, ArithOps[k]) :
                      ok(Strip(SplitChar(expr, ArithOps[k])[p]))}
  IN IF hits # {}
     THEN LET k == CHOOSE k \in hits : \A j \in hits : k <= j
              parts == SplitChar(expr, ArithOps[k])
              p == CHOOSE p \in DOMAIN parts :
                     ok(Strip(parts[p])) /\ \A q \in DOMAIN parts : ok(Strip(parts[q])) => p <= q
          IN Strip(parts[p])
     ELSE IF ok(expr) THEN expr ELSE <<>>

\* ------------------------------------------------------------ the solver
\* a constraint of the solver: a bound of a symbol, the atom or the decision
\* asserted with a polarity
Bound(kind, name, b) == [kind |-> kind, name |-> name, bound |-> b, idx |-> 0, pos |-> TRUE]
\* AtomC that asserts the atom whatever the polarity
AtomC_Positive(idx, pos) == [kind |-> "atom", name |-> <<>>, bound |-> 0, idx |-> idx, pos |-> TRUE]
AtomC(idx, pos) == [kind |-> "atom", name |-> <<>>, bound |-> 0, idx |-> idx, pos |-> pos]
BaseC(pos) == [kind |-> "base", name |-> <<>>, bound |-> 0, idx |-> 0, pos |-> pos]

\* RangeOf without the upper bounds
RangeOf_NoUpper(e) ==
  LET ty == DM_variables[e.original_var].var_type
      lo == DM_variables[e.original_var].min_value
  IN IF e.var_type = "constant" \/ ty = "bool" THEN <<>>
     ELSE IF ty = "int" THEN <<Bound("ge", e.name, IntTrunc(lo))>>
          ELSE <<Bound("ge", e.name, lo)>>

\* s.add(var_expr >= int(min)), s.add(var_expr <= int(max)) for an int
\* variable, the float bounds for a real one, nothing for a bool or constant
RangeOf(e) ==
  LET ty == DM_variables[e.original_var].var_type
      lo == DM_variables[e.original_var].min_value
      hi == DM_variables[e.original_var].max_value
  IN IF e.var_type = "constant" \/ ty = "bool" THEN <<>>
     ELSE IF ty = "int"
          THEN <<Bound("ge", e.name, IntTrunc(lo)), Bound("le", e.name, IntTrunc(hi))>>
          ELSE <<Bound("ge", e.name, lo), Bound("le", e.name, hi)>>
RECURSIVE RangeConstraints(_)
RangeConstraints(variables) ==
  IF variables = <<>> THEN <<>>
  ELSE RangeOf(Head(variables)) \o RangeConstraints(Tail(variables))

\* the values the solver may give a symbol of a sort: whole units for Int,
\* any tick for Real, false and true for Bool, reaching beyond every range
UMin == -Scale
UMax == 3 * Scale
Candidates(sort) ==
  IF sort = "int" THEN {t \in UMin..UMax : t % Scale = 0}
  ELSE IF sort = "bool" THEN {0, Scale}
  ELSE UMin..UMax

\* whether some resolved atom divides
UsesDivision(variables, parsed) ==
  \E k \in DOMAIN parsed.atoms :
    \E side \in {parsed.atoms[k][1], parsed.atoms[k][3]} :
      LET r == resolve_variable(variables, side) IN r.kind = "bin" /\ r.op = "/"

\* the functions that give each name of the set one of its candidates
RECURSIVE Assignments(_, _)
Assignments(names, cand) ==
  IF names = {} THEN {[x \in {} |-> 0]}
  ELSE LET n == CHOOSE n \in names : TRUE
       IN {(n :> v) @@ m : m \in Assignments(names \ {n}, cand), v \in cand[n]}

\* the interpretations the solver ranges over
Universe(variables, parsed) ==
  LET syms == Symbols(variables)
      dom == syms \cup (IF UsesDivision(variables, parsed) THEN {DivZero} ELSE {})
      cand == [n \in dom |-> IF n = DivZero THEN {0, Scale}
                              ELSE Candidates(SortOf(variables, n))]
  IN Assignments(dom, cand)

Holds(variables, parsed, c, m) ==
  IF c.kind = "ge" THEN m[c.name] >= c.bound
  ELSE IF c.kind = "le" THEN m[c.name] <= c.bound
  ELSE IF c.kind = "atom" THEN AtomValue(variables, parsed.atoms[c.idx], m) = c.pos
  ELSE BaseValue(variables, parsed, m) = c.pos

\* the models of everything asserted in the frames of s: s.check() is sat
\* when the set is not empty and s.model() is one of its elements
Models(variables, parsed, s) ==
  {m \in Universe(variables, parsed) :
     \A f \in DOMAIN s : \A k \in DOMAIN s[f] : Holds(variables, parsed, s[f][k], m)}

\* ------------------------------------------- eval(processed_condition)
\* Python's reading of the canonical text: tokens, then the expression
\* grammar or < and < not < comparison < + - < * / < unary < call, with
\* short-circuit evaluation and the exceptions an evaluated operand raises
Tok(kind, s) == [t |-> kind, s |-> s]
TwoCharOps == { <<"=","=">>, <<"!","=">>, <<">","=">>, <<"<","=">> }
OneCharOps == {"<", ">", "(", ")", "+", "-", "*", "/", ","}

RECURSIVE DigitRun(_, _)
DigitRun(s, i) == IF i <= Len(s) /\ s[i] \in Digits THEN 1 + DigitRun(s, i + 1) ELSE 0

RECURSIVE Tokenize(_, _)
Tokenize(s, i) ==
  IF i > Len(s) THEN <<>>
  ELSE IF s[i] \in Space THEN Tokenize(s, i + 1)
  ELSE IF s[i] \in IdStart
       THEN LET n == WordRun(s, i)
            IN <<Tok("name", SubSeq(s, i, i + n - 1))>> \o Tokenize(s, i + n)
  ELSE IF s[i] \in Digits
       THEN LET n == DigitRun(s, i)
                f == IF i + n <= Len(s) /\ s[i + n] = "." THEN 1 + DigitRun(s, i + n + 1) ELSE 0
            IN <<Tok("num", SubSeq(s, i, i + n + f - 1))>> \o Tokenize(s, i + n + f)
  ELSE IF i < Len(s) /\ <<s[i], s[i + 1]>> \in TwoCharOps
       THEN <<Tok("op", <<s[i], s[i + 1]>>)>> \o Tokenize(s, i + 2)
  ELSE IF s[i] \in OneCharOps
       THEN <<Tok("op", <<s[i]>>)>> \o Tokenize(s, i + 1)
  ELSE <<Tok("bad", <<s[i]>>)>> \o Tokenize(s, i + 1)

DigitValue(c) ==
  CASE c = "0" -> 0 [] c = "1" -> 1 [] c = "2" -> 2 [] c = "3" -> 3 [] c = "4" -> 4
    [] c = "5" -> 5 [] c = "6" -> 6 [] c = "7" -> 7 [] c = "8" -> 8 [] OTHER -> 9

\* the number a literal denotes
RECURSIVE NumberOf(_, _, _, _)
NumberOf(s, i, n, d) ==
  IF i > Len(s) THEN Q(n, IF d = 0 THEN 1 ELSE d)
  ELSE IF s[i] = "." THEN NumberOf(s, i + 1, n, 1)
  ELSE NumberOf(s, i + 1, 10 * n + DigitValue(s[i]), 10 * d)

\* result of evaluating a phrase: its value, the exception raised ("" when
\* none), the index of the next token, whether the text is ill-formed, and for
\* a comparison chain the value of its last operand
PyRes(v, e, i, syn) == [v |-> v, e |-> e, i |-> i, syn |-> syn, chain |-> FALSE, p |-> v]
PyChain(v, e, i, p) == [v |-> v, e |-> e, i |-> i, syn |-> FALSE, chain |-> TRUE, p |-> p]
PySyntax == PyRes(Q(0, 1), "SyntaxError", 0, TRUE)
IsOp(toks, i, s) == i <= Len(toks) /\ toks[i].t = "op" /\ toks[i].s = s
IsName(toks, i, s) == i <= Len(toks) /\ toks[i].t = "name" /\ toks[i].s = s
PyKeywords == Keywords \cup { <<"i","f">>, <<"e","l","s","e">> }
IsCmp(toks, i) ==
  i <= Len(toks) /\ toks[i].t = "op"
    /\ toks[i].s \in TwoCharOps \cup { <<"<">>, <<">">> }

\* the binding strength of the binary operator at token i (0 when none is):
\* or 1 < and 2 < (not 3) < comparison 4 < + - 5 < * / 6 < (unary 7)
BinPrec(toks, i) ==
  IF IsName(toks, i, <<"o","r">>) THEN 1
  ELSE IF IsName(toks, i, <<"a","n","d">>) THEN 2
  ELSE IF IsCmp(toks, i) THEN 4
  ELSE IF IsOp(toks, i, <<"+">>) \/ IsOp(toks, i, <<"-">>) THEN 5
  ELSE IF IsOp(toks, i, <<"*">>) \/ IsOp(toks, i, <<"/">>) THEN 6
  ELSE 0

RECURSIVE PyExpr(_, _, _, _, _)
RECURSIVE PyRest(_, _, _, _, _)
RECURSIVE PyArgs(_, _, _, _)

\* '(' test ')': r is the reading of the test
PyParen(toks, r) ==
  IF r.syn \/ ~IsOp(toks, r.i, <<")">>) THEN PySyntax ELSE PyRes(r.v, r.e, r.i + 1, FALSE)

\* NAME | NUMBER | True | False | '(' test ')'; a name the environment lacks
\* raises NameError when it is evaluated
PyAtom(toks, i, env, live) ==
  IF i > Len(toks) THEN PySyntax
  ELSE IF toks[i].t = "num" THEN PyRes(NumberOf(toks[i].s, 1, 0, 0), "", i + 1, FALSE)
  ELSE IF IsOp(toks, i, <<"(">>) THEN PyParen(toks, PyExpr(toks, i + 1, env, live, 1))
  ELSE IF toks[i].t # "name" THEN PySyntax
  ELSE IF toks[i].s = <<"T","r","u","e">> THEN PyRes(Q(1, 1), "", i + 1, FALSE)
  ELSE IF toks[i].s = <<"F","a","l","s","e">> THEN PyRes(Q(0, 1), "", i + 1, FALSE)
  ELSE IF toks[i].s \in PyKeywords THEN PySyntax
  ELSE IF ~live THEN PyRes(Q(0, 1), "", i + 1, FALSE)
  ELSE IF toks[i].s \in DOMAIN env THEN PyRes(env[toks[i].s], "", i + 1, FALSE)
  ELSE PyRes(Q(0, 1), "NameError", i + 1, FALSE)

\* the argument list of a call, up to and including its ')': a is the first
\* argument, r the rest of the list
PyArgsJoin(a, r) ==
  IF r.syn THEN PySyntax ELSE PyRes(r.v, IF a.e # "" THEN a.e ELSE r.e, r.i, FALSE)
PyArgsAfter(toks, a, env, live) ==
  IF a.syn THEN PySyntax
  ELSE IF IsOp(toks, a.i, <<",">>)
       THEN PyArgsJoin(a, PyArgs(toks, a.i + 1, env, live /\ a.e = ""))
  ELSE IF IsOp(toks, a.i, <<")">>) THEN PyRes(a.v, a.e, a.i + 1, FALSE)
  ELSE PySyntax
PyArgs(toks, i, env, live) ==
  IF IsOp(toks, i, <<")">>) THEN PyRes(Q(0, 1), "", i + 1, FALSE)
  ELSE PyArgsAfter(toks, PyExpr(toks, i, env, live, 1), env, live)

\* a call a(args): of a name the environment lacks NameError, else an
\* exception of an argument, else TypeError (nothing in env is callable)
PyCall(toks, a, r, live) ==
  IF r.syn \/ IsOp(toks, r.i, <<"(">>) THEN PySyntax
  ELSE PyRes(Q(0, 1),
             IF ~live THEN "" ELSE IF a.e # "" THEN a.e
             ELSE IF r.e # "" THEN r.e ELSE "TypeError",
             r.i, FALSE)
PyTrailer(toks, a, env, live) ==
  IF a.syn \/ ~IsOp(toks, a.i, <<"(">>) THEN a
  ELSE PyCall(toks, a, PyArgs(toks, a.i + 1, env, live /\ a.e = ""), live)
PyPrimary(toks, i, env, live) == PyTrailer(toks, PyAtom(toks, i, env, live), env, live)

PyNeg(r) == IF r.syn THEN PySyntax ELSE PyRes(Q(-r.v.n, r.v.d), r.e, r.i, FALSE)
PyNegate(r) == IF r.syn THEN PySyntax ELSE PyRes(QBool(~QTruthy(r.v)), r.e, r.i, FALSE)

\* an operand with its prefix operators: not is read only where a not_test
\* may stand, - and + bind tighter than every binary operator
PyPrefix(toks, i, env, live, p) ==
  IF IsName(toks, i, <<"n","o","t">>)
  THEN IF p > 3 THEN PySyntax ELSE PyNegate(PyExpr(toks, i + 1, env, live, 3))
  ELSE IF IsOp(toks, i, <<"-">>) THEN PyNeg(PyExpr(toks, i + 1, env, live, 7))
  ELSE IF IsOp(toks, i, <<"+">>) THEN PyExpr(toks, i + 1, env, live, 7)
  ELSE PyPrimary(toks, i, env, live)

\* whether the right operand of the operator after left is evaluated: not
\* after an exception, nor when or/and short-circuit, nor after a false link
\* of a comparison chain
PyOperandLive(toks, left, live) ==
  /\ live
  /\ left.e = ""
  /\ BinPrec(toks, left.i) = 1 => ~QTruthy(left.v)
  /\ BinPrec(toks, left.i) = 2 => QTruthy(left.v)
  /\ (BinPrec(toks, left.i) = 4 /\ left.chain) => QTruthy(left.v)

\* left op r: x or y and x and y give the operand that decided, a comparison
\* extends the chain, / is true division
PyCombine(toks, left, r, ok) ==
  IF r.syn THEN PySyntax
  ELSE IF BinPrec(toks, left.i) \in {1, 2}
       THEN IF ok THEN PyRes(r.v, r.e, r.i, FALSE) ELSE PyRes(left.v, left.e, r.i, FALSE)
  ELSE IF BinPrec(toks, left.i) = 4
       THEN IF ~ok THEN PyChain(left.v, left.e, r.i, left.p)
            ELSE IF r.e # "" THEN PyChain(Q(0, 1), r.e, r.i, left.p)
            ELSE PyChain(QBool(Compare(toks[left.i].s, left.p, r.v)), "", r.i, r.v)
  ELSE IF ~ok \/ r.e # ""
       THEN PyRes(Q(0, 1), IF left.e # "" THEN left.e ELSE r.e, r.i, FALSE)
  ELSE IF toks[left.i].s = <<"+">> THEN PyRes(QAdd(left.v, r.v), "", r.i, FALSE)
  ELSE IF toks[left.i].s = <<"-">> THEN PyRes(QSub(left.v, r.v), "", r.i, FALSE)
  ELSE IF toks[left.i].s = <<"*">> THEN PyRes(QMul(left.v, r.v), "", r.i, FALSE)
  ELSE IF r.v.n = 0 THEN PyRes(Q(0, 1), "ZeroDivisionError", r.i, FALSE)
  ELSE PyRes(IF r.v.n > 0 THEN Q(left.v.n * r.v.d, left.v.d * r.v.n)
             ELSE Q(-(left.v.n * r.v.d), -(left.v.d * r.v.n)), "", r.i, FALSE)

\* the binary operators that follow left and bind at least as strongly as p,
\* taken from left to right
PyRest(toks, left, p, env, live) ==
  IF left.syn THEN PySyntax
  ELSE IF BinPrec(toks, left.i) = 0 \/ BinPrec(toks, left.i) < p THEN left
  ELSE PyRest(toks,
         PyCombine(toks, left,
                   PyExpr(toks, left.i + 1, env, PyOperandLive(toks, left, live),
                          BinPrec(toks, left.i) + 1),
                   PyOperandLive(toks, left, live)),
         p, env, live)
PyExpr(toks, i, env, live, p) == PyRest(toks, PyPrefix(toks, i, env, live, p), p, env, live)

\* eval(text, {"__builtins__": {}}, env): .e names the exception raised, ""
\* when there is none and .v is the value
PyWhole(toks, r) ==
  IF r.syn \/ r.i # Len(toks) + 1 \/ \E k \in DOMAIN toks : toks[k].t = "bad"
  THEN PySyntax ELSE r
PyTokens(toks, env) == PyWhole(toks, PyExpr(toks, 1, env, TRUE, 1))
PyEval(text, env) == PyTokens(Tokenize(text, 1), env)

\* ------------------------------------------------- witnesses to test cases
\* safe_convert_z3_value: as_long() of an Int value, the truncated decimal
\* expansion of a Real value (whole decimal steps, toward zero), the bool
safe_convert_z3_value(sort, t) ==
  IF sort = "int" THEN [v |-> t, k |-> "int"]
  ELSE IF sort = "real"
       THEN [v |-> IF t >= 0 THEN (t \div Prec) * Prec ELSE -(((-t) \div Prec) * Prec),
             k |-> "float"]
  ELSE [v |-> t, k |-> "bool"]

\* the symbols of a side when the atom resolves
TermSymbols(variables, term) ==
  {n \in {term.a, term.b} : term.kind # "none" /\ ~IsConstant(variables, n)}
AtomSymbols(variables, atom) ==
  IF ~Resolved(variables, atom) THEN {}
  ELSE TermSymbols(variables, resolve_variable(variables, atom[1]))
         \cup TermSymbols(variables, resolve_variable(variables, atom[3]))

\* model.decls(): the symbols that occur in what the solver holds
ModelDecls(variables, parsed, s) ==
  UNION {UNION {LET c == s[f][k]
                IN IF c.kind \in {"ge", "le"} THEN {c.name}
                   ELSE IF c.kind = "atom" THEN AtomSymbols(variables, parsed.atoms[c.idx])
                   ELSE UNION {AtomSymbols(variables, parsed.atoms[a])
                                 : a \in ExprAtoms(parsed.root, parsed.ph, Len(parsed.atoms))}
                : k \in DOMAIN s[f]} : f \in DOMAIN s}

\* the midpoint default of a variable that the first model lacks
MidValue(e) ==
  LET mid == (e.min_value + e.max_value) \div 2
  IN IF e.var_type = "int" THEN [v |-> IntTrunc(mid), k |-> "int"]
     ELSE [v |-> mid, k |-> "float"]

\* test_case_true: one (name, value) item per entry of variables, in order
RECURSIVE TrueCase(_, _, _, _)
TrueCase(variables, rest, decls, m) ==
  IF rest = <<>> THEN <<>>
  ELSE LET e == Head(rest)
           val == IF e.var_type = "constant" THEN [v |-> e.constant_value, k |-> "float"]
                  ELSE IF e.name \in decls
                       THEN safe_convert_z3_value(SortOf(variables, e.name), m[e.name])
                       ELSE MidValue(e)
       IN <<[name |-> e.name, val |-> val]>> \o TrueCase(variables, Tail(rest), decls, m)

\* test_case_false: a variable the second model lacks takes test_case_true's value
RECURSIVE FalseCase(_, _, _, _, _)
FalseCase(variables, rest, decls, m, tc_true) ==
  IF rest = <<>> THEN <<>>
  ELSE LET e == Head(rest)
           val == IF e.var_type = "constant" THEN [v |-> e.constant_value, k |-> "float"]
                  ELSE IF e.name \in decls
                       THEN safe_convert_z3_value(SortOf(variables, e.name), m[e.name])
                       ELSE Head(tc_true).val
       IN <<[name |-> e.name, val |-> val]>>
            \o FalseCase(variables, Tail(rest), decls, m, Tail(tc_true))

\* {**test_case, **self.data_manager.constants}: the catalog's constants win
EvalEnv(test_case) ==
  LET tcn == {test_case[k].name : k \in DOMAIN test_case}
  IN [n \in tcn \cup DOMAIN DM_constants |->
        IF n \in DOMAIN DM_constants THEN Ticks(DM_constants[n])
        ELSE Ticks(test_case[CHOOSE k \in DOMAIN test_case : test_case[k].name = n].val.v)]

\* ------------------------------------------------------ _format_test_case
AsciiOrder ==
  <<"(",")","0","1","2","3","4","5","6","7","8","9",
    "A","B","C","D","E","F","G","H","I","J","K","L","M","N","O","P","Q","R","S","T","U","V","W","X","Y","Z",
    "_",
    "a","b","c","d","e","f","g","h","i","j","k","l","m","n","o","p","q","r","s","t","u","v","w","x","y","z">>
CharCode(c) == CHOOSE k \in DOMAIN AsciiOrder : AsciiOrder[k] = c

\* a < b for strings, as sorted() compares the keys
RECURSIVE StrLess(_, _)
StrLess(a, b) ==
  IF b = <<>> THEN FALSE
  ELSE IF a = <<>> THEN TRUE
  ELSE IF Head(a) = Head(b) THEN StrLess(Tail(a), Tail(b))
  ELSE CharCode(Head(a)) < CharCode(Head(b))

\* sorted(test_case.items())
RECURSIVE SortItems(_)
SortItems(items) ==
  IF items = <<>> THEN <<>>
  ELSE LET k == CHOOSE k \in DOMAIN items :
                  \A j \in DOMAIN items : j # k => StrLess(items[k].name, items[j].name)
                                                     \/ (items[k].name = items[j].name /\ k < j)
           rest == [j \in 1..(Len(items) - 1) |-> IF j < k THEN items[j] ELSE items[j + 1]]
       IN <<items[k]>> \o SortItems(rest)

DigitChars == <<"0","1","2","3","4","5","6","7","8","9">>
RECURSIVE NatText(_)
NatText(n) == IF n < 10 THEN <<DigitChars[n + 1]>> ELSE NatText(n \div 10) \o <<DigitChars[(n % 10) + 1]>>

\* f"{val}": an int as digits, a float of whole decimal steps as d.0 or d.5,
\* a bool as True or False
ValueText(val) ==
  LET a == IF val.v < 0 THEN -val.v ELSE val.v
      sign == IF val.v < 0 THEN <<"-">> ELSE <<>>
  IN IF val.k = "bool" THEN (IF val.v # 0 THEN <<"T","r","u","e">> ELSE <<"F","a","l","s","e">>)
     ELSE IF val.k = "int" THEN sign \o NatText(a \div Scale)
     ELSE sign \o NatText(a \div Scale) \o <<".">>
            \o (IF (a % Scale) \div Prec = 0 THEN <<"0">> ELSE <<"5">>)

display_name(var) ==
  IF Head(var) = "_" /\ var[Len(var)] = "_"
  THEN <<"l","a","s","t","(">> \o Slice(var, 1, Len(var) - 1) \o <<")">>
  ELSE var

RECURSIVE JoinItems(_)
JoinItems(items) ==
  IF items = <<>> THEN <<>>
  ELSE display_name(Head(items).name) \o <<"=">> \o ValueText(Head(items).val)
         \o (IF Len(items) > 1 THEN <<",", " ">> ELSE <<>>) \o JoinItems(Tail(items))

_format_test_case(test_case) == JoinItems(SortItems(test_case))

\* -------------------------------------------------- extract_if_conditions
\* the index just past the parenthesis that closes the group opened before
\* right_paren, or the end of the text; count tells whether it closed
RECURSIVE CloseParen(_, _, _)
CloseParen(text, right_paren, count) ==
  IF ~(count > 0 /\ right_paren < Len(text)) THEN [pos |-> right_paren, count |-> count]
  ELSE IF text[right_paren + 1] = "(" THEN CloseParen(text, right_paren + 1, count + 1)
  ELSE IF text[right_paren + 1] = ")" THEN CloseParen(text, right_paren + 1, count - 1)
  ELSE CloseParen(text, right_paren + 1, count)

RECURSIVE extract_if_conditions_from(_, _)
extract_if_conditions_from(text, i) ==
  IF i >= Len(text) THEN <<>>
  ELSE IF Slice(text, i, i + 2) # <<"i","f">> THEN extract_if_conditions_from(text, i + 1)
  ELSE LET left_paren == FindFrom(text, <<"(">>, i)
       IN IF left_paren = -1 THEN extract_if_conditions_from(text, i + 1)
          ELSE LET c == CloseParen(text, left_paren + 1, 1)
               IN IF c.count # 0 THEN extract_if_conditions_from(text, i + 1)
                  ELSE LET raw == Strip(Slice(text, left_paren, c.pos))
                           cond == IF raw # <<>> /\ Head(raw) = "(" /\ raw[Len(raw)] = ")"
                                   THEN Strip(Slice(raw, 1, Len(raw) - 1)) ELSE raw
                       IN <<cond>> \o extract_if_conditions_from(text, c.pos + 1)
extract_if_conditions(text) == extract_if_conditions_from(text, 0)

\* ----------------------------------------------------------------- state
VARIABLES
  nx,      \* normalizer run: the input text
  ny,      \* normalizer run: the text after the passes run so far
  npass,   \* normalizer run: number of passes applied (0, 1 or 2)
  ptree,   \* parser run: the decision tree whose text is parsed
  pfull,   \* parser run: whether the text is fully parenthesized
  pres,    \* parser run: (atomic_conditions, placeholders, root)
  ppc,     \* parser run: "input" or "parsed"
  bformula,     \* block extraction: the formula text
  bcondition,   \* block extraction: the decision looked for
  bpc,          \* block extraction: "input" or "done"
  true_result,  \* block extraction: the then block returned
  false_result, \* block extraction: the else block returned
  seed,         \* seed rows: the rows of the test case sheet
  sformula,     \* seed rows: the formula of the module the rows belong to
  spc,          \* seed rows: "seed", "parsed", "merged", "matched" or "written"
  all_rows,     \* seed rows: what parse_testcase_to_json saves
  testcases,    \* seed rows: the merged test cases, later with their results
  data,         \* seed rows: the rows generate_excel writes
  formula,              \* module.formula
  pc,                   \* position in generate_mcdc_cases
  if_conditions,        \* the decisions extracted from the formula
  idx,                  \* 1-based index of the decision being processed
  condition,            \* the decision's raw text
  variables,            \* input_vars: the entries _parse_condition returned
  processed_condition,  \* the canonical text _parse_condition returned
  parsed,               \* atomic_conditions, expr_structure, root_expr
  s,                    \* the solver: a stack of frames of constraints
  aidx,                 \* 0-based index of the atom being processed
  model_true,           \* the model of the first leg
  test_conditions,      \* the pairs collected for the current decision
  mcdc_conditions,      \* the pairs _generate_mcdc_conditions returned
  test_cases,           \* the records of the module so far
  log,                  \* the diagnostics printed so far
  run,                  \* which run of generate_mcdc_cases on the module this is
  first_run,            \* what the first run returned, once a second run began
  sheet                 \* the rows export_to_excel appended to the worksheet

varsNorm == <<nx, ny, npass>>
varsParse == <<ptree, pfull, pres, ppc>>
varsGen == <<formula, pc, if_conditions, idx, condition, variables, processed_condition,
             parsed, s, aidx, model_true, test_conditions, mcdc_conditions, test_cases, log>>
varsRun == <<run, first_run, sheet>>
varsBlocks == <<bformula, bcondition, bpc, true_result, false_result>>
varsSeed == <<seed, sformula, spc, all_rows, testcases, data>>
vars == <<varsNorm, varsParse, varsGen, varsRun, varsBlocks, varsSeed>>

NoModel == [x \in {} |-> 0]
IdleNorm == nx = <<>> /\ ny = <<>> /\ npass = 0
IdleParse == ptree = Leaf /\ pfull = FALSE /\ pres = EmptyParse /\ ppc = "input"
IdleBlocks ==
  /\ bformula = <<>> /\ bcondition = <<>> /\ bpc = "input"
  /\ true_result = <<>> /\ false_result = <<>>
IdleSeed ==
  /\ seed = <<>> /\ sformula = <<>> /\ spc = "seed"
  /\ all_rows = <<>> /\ testcases = <<>> /\ data = <<>>
IdleGen ==
  /\ formula = <<>> /\ pc = "idle" /\ if_conditions = <<>> /\ idx = 0 /\ condition = <<>>
  /\ variables = <<>> /\ processed_condition = <<>> /\ parsed = EmptyParse /\ s = <<>>
  /\ aidx = 0 /\ model_true = NoModel /\ test_conditions = <<>> /\ mcdc_conditions = <<>>
  /\ test_cases = <<>> /\ log = <<>> /\ run = 0 /\ first_run = <<>> /\ sheet = <<>>

\* ------------------------------------------------ normalizer, run twice
NormAlphabet == {"a", "=", "<", ">", "!", "&", "|", " "}
NormInputs == UNION {[1..n -> NormAlphabet] : n \in 0..MaxLen}

InitNorm == nx \in NormInputs /\ ny = nx /\ npass = 0 /\ IdleParse /\ IdleGen /\ IdleBlocks /\ IdleSeed
\* one more application of the canonicalization to its own output
NormPass ==
  /\ npass < 2
  /\ ny' = Normalize(ny)
  /\ npass' = npass + 1
  /\ UNCHANGED <<nx, varsParse, varsGen, varsRun, varsBlocks, varsSeed>>
NextNorm == NormPass
SpecNorm == InitNorm /\ [][NextNorm]_vars

\* ------------------------------------------------------ parser, run once
InitParse ==
  /\ ptree \in AllTrees /\ pfull \in BOOLEAN /\ pres = EmptyParse /\ ppc = "input"
  /\ IdleNorm /\ IdleGen /\ IdleBlocks /\ IdleSeed
\* _parse_condition's text, preprocess_condition and extract_expression_structure
ParseDecision ==
  /\ ppc = "input"
  /\ pres' = extract_expression_structure(
               preprocess_condition(Normalize(PrintTree(ptree, 0, pfull))))
  /\ ppc' = "parsed"
  /\ UNCHANGED <<ptree, pfull, varsNorm, varsGen, varsRun, varsBlocks, varsSeed>>
NextParse == ParseDecision
SpecParse == InitParse /\ [][NextParse]_vars

\* C9: the expression built from the structure denotes the same boolean
\* function of the atoms as the decision's text read with || looser than &&
\* and parentheses grouping, also with several composites at one depth
C9_BuiltDenotesText ==
  ppc = "parsed" =>
    \A tv \in [1..Leaves(ptree) -> BOOLEAN] :
      build_z3_expression(pres.root, pres.ph, tv) = TreeEval(ptree, 0, tv)

\* ------------------------------------------------- extract_code_blocks
\* how far past the then block's end an else is still looked for
ElseNear == 20

\* the scan for the brace that closes the one opened just before brace_end
RECURSIVE MatchBrace(_, _, _)
MatchBrace(f, brace_end, brace_count) ==
  IF brace_count > 0 /\ brace_end < Len(f)
  THEN MatchBrace(f, brace_end + 1,
                  IF f[brace_end + 1] = "{" THEN brace_count + 1
                  ELSE IF f[brace_end + 1] = "}" THEN brace_count - 1
                  ELSE brace_count)
  ELSE [brace_end |-> brace_end, brace_count |-> brace_count]

\* where the decision is found: str.find of the text, then of if(text)
ConditionPos(f, c) ==
  IF Find(f, c) # -1 THEN Find(f, c)
  ELSE Find(f, <<"i","f","(">> \o c \o <<")">>)

\* the else block looked for from brace_end on
ElseBlock(f, brace_end) ==
  LET else_pos == FindFrom(f, <<"e","l","s","e">>, brace_end)
      else_brace_start == FindFrom(f, <<"{">>, else_pos)
      closing == MatchBrace(f, else_brace_start + 1, 1)
  IN IF else_pos # -1 /\ else_pos < brace_end + ElseNear
     THEN IF else_brace_start # -1 /\ closing.brace_count = 0
          THEN Slice(f, else_brace_start + 1, closing.brace_end - 1)
          ELSE <<>>
     ELSE <<>>

\* (true_result, false_result)
NoBlocks == [true_result |-> <<>>, false_result |-> <<>>]
extract_code_blocks(f, c) ==
  LET condition_pos == ConditionPos(f, c)
      brace_start == FindFrom(f, <<"{">>, condition_pos)
      closing == MatchBrace(f, brace_start + 1, 1)
  IN IF c = <<>> THEN NoBlocks
     ELSE IF condition_pos = -1 THEN NoBlocks
     ELSE IF brace_start = -1 THEN NoBlocks
     ELSE IF closing.brace_count # 0 THEN NoBlocks
     ELSE [true_result |-> Slice(f, brace_start + 1, closing.brace_end - 1),
           false_result |-> ElseBlock(f, closing.brace_end)]

\* the formulas block extraction is run on: an if statement on decision a,
\* after nothing, a statement, an if on a longer decision or an if whose block
\* names a, followed by nothing, by blanks or by other statements, and then by
\* an else or not
LongBlank == [i \in 1..ElseNear |-> " "]
BlockLead == {<<>>, <<"y","=","0",";">>, <<"i","f","(","a","&","&","b",")","{","w","}">>, <<"i","f","(","b",")","{","a","=","1",";","}">>}
BlockThen == {<<"x","=","1",";">>, <<"{","x","}">>, <<"{","x">>}
BlockGap == {<<>>, <<" ">>, <<"\n"," ">>, <<"y","=","1",";">>, <<"i","f","(","b",")","{","y","}">>, <<" ","i","f","(","b",")","{","y","}"," ">>, LongBlank}
BlockTail == {<<>>, <<"e","l","s","e","{","z","}">>, <<"e","l","s","e"," ","{","z","=","0",";","}">>, <<"e","l","s","e","{","z">>, <<"e","l","s","e"," ","z">>, <<"y","=","2",";">>}
BlockFormula(lead, then, gap, tail) ==
  lead \o <<"i","f","(","a",")","{">> \o then \o <<"}">> \o gap \o tail
BlockFormulas ==
  {BlockFormula(lead, then, gap, tail) :
     lead \in BlockLead, then \in BlockThen, gap \in BlockGap, tail \in BlockTail}
  \cup {<<>>, <<"i","f","(","a",")"," ","x","=","1",";">>}
BlockConditions == {<<"a">>, <<>>, <<"q">>}

InitBlocks ==
  /\ bformula \in BlockFormulas /\ bcondition \in BlockConditions /\ bpc = "input"
  /\ true_result = <<>> /\ false_result = <<>>
  /\ IdleNorm /\ IdleParse /\ IdleGen /\ IdleSeed
\* the call extract_code_blocks(formula, condition)
ExtractCodeBlocks ==
  /\ bpc = "input"
  /\ true_result' = extract_code_blocks(bformula, bcondition).true_result
  /\ false_result' = extract_code_blocks(bformula, bcondition).false_result
  /\ bpc' = "done"
  /\ UNCHANGED <<bformula, bcondition, varsNorm, varsParse, varsGen, varsRun, varsSeed>>
NextBlocks == ExtractCodeBlocks
SpecBlocks == InitBlocks /\ [][NextBlocks]_vars

\* whether the text after the then block of the decision's if statement is an
\* else keyword preceded by nothing but whitespace
OwnElse(f, c) ==
  LET closing == MatchBrace(f, FindFrom(f, <<"{">>, ConditionPos(f, c)) + 1, 1)
  IN StartsAt(LStrip(Slice(f, closing.brace_end, Len(f))), 0, <<"e","l","s","e">>)

\* C17: the else block returned is non-empty only when an else keyword
\* follows the then block's closing brace with only whitespace in between;
\* without an else of its own the false outcome is empty.
C17_ElseOnlyOwn ==
  bpc = "done" => (false_result # <<>> => OwnElse(bformula, bcondition))

\* ------------------------------------------------------- the seed rows
\* an empty cell of the sheet
NaN == <<"nan">>

\* round(a / d) with ties to the even neighbour, a >= 0 and d > 0. Python
\* rounds the binary approximation of the quotient: a tie of a value that has
\* no exact binary form (1/40 = 0.025) goes the way of its approximation,
\* which this definition does not follow; no seed test case holds one.
RoundHalfEven(a, d) ==
  IF 2 * (a % d) > d THEN a \div d + 1
  ELSE IF 2 * (a % d) < d THEN a \div d
  ELSE IF (a \div d) % 2 = 0 THEN a \div d ELSE a \div d + 1

\* replace_fraction: the text written for -?n/d with d > 0: a value whose
\* decimal expansion ends in .1 or .9 is rounded to the nearest integer, any
\* other to two decimals with trailing zeros and a trailing point removed
FractionText(neg, n, d) ==
  LET tenths == (10 * n) \div d
      h == RoundHalfEven(100 * n, d)
      whole == IF tenths % 10 = 9 THEN tenths \div 10 + 1 ELSE tenths \div 10
      frac == IF h % 10 = 0 THEN <<DigitChars[(h % 100) \div 10 + 1]>>
              ELSE <<DigitChars[(h % 100) \div 10 + 1], DigitChars[(h % 10) + 1]>>
  IN IF (10 * n) % d = 0 /\ tenths % 10 \in {1, 9}
     THEN (IF neg /\ whole > 0 THEN <<"-">> ELSE <<>>) \o NatText(whole)
     ELSE (IF neg /\ n > 0 THEN <<"-">> ELSE <<>>) \o NatText(h \div 100)
            \o (IF h % 100 = 0 THEN <<>> ELSE <<".">> \o frac)

\* the match of (\-?\d+)/(\d+) that starts at index i, len 0 when none does
FractionAt(x, i) ==
  LET neg == i <= Len(x) /\ x[i] = "-"
      a == IF neg THEN i + 1 ELSE i
      n == DigitRun(x, a)
      m == IF n > 0 /\ a + n <= Len(x) /\ x[a + n] = "/" THEN DigitRun(x, a + n + 1) ELSE 0
  IN [len |-> IF m > 0 THEN (a - i) + n + 1 + m ELSE 0,
      neg |-> neg,
      num |-> IF m > 0 THEN NumberOf(SubSeq(x, a, a + n - 1), 1, 0, 0).n ELSE 0,
      den |-> IF m > 0 THEN NumberOf(SubSeq(x, a + n + 1, a + n + m), 1, 0, 0).n ELSE 1]

\* convert_fraction_to_decimal: re.sub of every fraction of the text, for
\* denominators other than 0
RECURSIVE convert_fraction_from(_, _)
convert_fraction_from(x, i) ==
  IF i > Len(x) THEN <<>>
  ELSE IF FractionAt(x, i).len = 0 THEN <<x[i]>> \o convert_fraction_from(x, i + 1)
  ELSE FractionText(FractionAt(x, i).neg, FractionAt(x, i).num, FractionAt(x, i).den)
         \o convert_fraction_from(x, i + FractionAt(x, i).len)
convert_fraction_to_decimal(x) == convert_fraction_from(x, 1)

\* parse_testcase_to_json: an empty condition cell takes the last condition
\* that was not empty; a condition that starts with ! is saved without it
\* and with flag false
RECURSIVE parse_testcase_to_json(_, _)
parse_testcase_to_json(rows, last_non_empty) ==
  IF rows = <<>> THEN <<>>
  ELSE LET value == IF Head(rows).cond = NaN THEN last_non_empty ELSE Strip(Head(rows).cond)
           cond == Strip(value)
           last == IF Head(rows).cond # NaN /\ value # <<>> THEN value ELSE last_non_empty
           test == IF Head(rows).test = NaN THEN <<>> ELSE Strip(Head(rows).test)
       IN <<IF cond # <<>> /\ Head(cond) = "!"
            THEN [cond |-> Strip(Tail(cond)), original |-> cond, flag |-> FALSE, test |-> test]
            ELSE [cond |-> value, original |-> cond, flag |-> TRUE, test |-> test]>>
            \o parse_testcase_to_json(Tail(rows), last)

\* merge_testcases_by_requirement: one group for each condition, in the order
\* of first appearance, with the test cases of its rows by flag
GroupOf(groups, cond) == {k \in DOMAIN groups : groups[k].condition = cond}
AddTest(group, item) ==
  IF item.test = <<>> THEN group
  ELSE IF item.flag
       THEN [group EXCEPT !.true_test_case = Append(@, convert_fraction_to_decimal(item.test))]
       ELSE [group EXCEPT !.false_test_case = Append(@, convert_fraction_to_decimal(item.test))]
NewGroup(cond) ==
  [condition |-> cond, true_test_case |-> <<>>, false_test_case |-> <<>>,
   true_result |-> <<>>, false_result |-> <<>>]
RECURSIVE merge_testcases_by_requirement(_, _)
merge_testcases_by_requirement(items, groups) ==
  IF items = <<>> THEN groups
  ELSE LET cond == Strip(Head(items).cond)
           at == GroupOf(groups, cond)
       IN merge_testcases_by_requirement(Tail(items),
            IF at = {} THEN Append(groups, AddTest(NewGroup(cond), Head(items)))
            ELSE [groups EXCEPT ![CHOOSE k \in at : TRUE] = AddTest(@, Head(items))])

\* match_and_extract_results on one test case: the condition without
\* whitespace and without a first ( and a last ), and the blocks
\* extract_code_blocks finds for it in the module's formula
CleanCondition(c) ==
  LET x == RemoveSpaces(c)
  IN IF c = <<>> THEN c
     ELSE IF x # <<>> /\ Head(x) = "(" /\ x[Len(x)] = ")" THEN Slice(x, 1, Len(x) - 1)
     ELSE x
MatchOne(testcase, f) ==
  [testcase EXCEPT
     !.condition = CleanCondition(testcase.condition),
     !.true_result = extract_code_blocks(f, CleanCondition(testcase.condition)).true_result,
     !.false_result = extract_code_blocks(f, CleanCondition(testcase.condition)).false_result]

\* generate_excel: a row for every test case of every group, the rows of
\* false_test_case with the condition written as !(condition)
ExcelRow(cond, test, result) == [condition |-> cond, test |-> test, result |-> result]
RowsOfGroup(g) ==
  [k \in DOMAIN g.true_test_case |-> ExcelRow(g.condition, g.true_test_case[k], g.true_result)]
    \o [k \in DOMAIN g.false_test_case |->
          ExcelRow(<<"!","(">> \o g.condition \o <<")">>, g.false_test_case[k], g.false_result)]
RECURSIVE generate_excel(_)
generate_excel(groups) ==
  IF groups = <<>> THEN <<>> ELSE RowsOfGroup(Head(groups)) \o generate_excel(Tail(groups))

\* clean_formula: the formula as parse_module_doc saves it
clean_formula(formula_text) == RemoveSpaces(formula_text)

\* the sheets and formulas the seed rows are drawn from: every row has a test
\* case of its own
SeedConditions ==
  {<<"a">>, <<"!","a">>, <<"!","a","&","&","b">>, <<"a"," ","&","&"," ","b">>, <<"!","(","a","&","&","b",")">>, <<"(","a",")","&","&","(","b",")">>, NaN}
SeedTests == <<<<"A","=","1">>, <<"A","=","1","/","2">>>>
SeedSheets ==
  {<<[cond |-> c, test |-> SeedTests[1]]>> : c \in SeedConditions}
    \cup {<<[cond |-> c, test |-> SeedTests[1]], [cond |-> d, test |-> SeedTests[2]]>> :
            c \in SeedConditions, d \in SeedConditions}
SeedFormulas ==
  {<<"i","f"," ","(","a",")"," ","{","x","=","1",";","}"," ","e","l","s","e"," ","{","x","=","0",";","}">>,
   <<"i","f"," ","(","a",")"," ","{","x","=","1",";">>,
   <<"i","f"," ","(","a",")"," ","{","x","=","1",";","}"," ","e","l","s","e"," ","{","x","=","0",";">>,
   <<"i","f"," ","(","a","&","&","b",")"," ","{","x","=","1",";","}"," ","e","l","s","e"," ","{","x","=","0",";","}">>}

InitSeed ==
  /\ seed \in SeedSheets /\ sformula \in {clean_formula(f) : f \in SeedFormulas}
  /\ spc = "seed" /\ all_rows = <<>> /\ testcases = <<>> /\ data = <<>>
  /\ IdleNorm /\ IdleParse /\ IdleGen /\ IdleBlocks
ParseTestcaseToJson ==
  /\ spc = "seed"
  /\ all_rows' = parse_testcase_to_json(seed, <<>>)
  /\ spc' = "parsed"
  /\ UNCHANGED <<seed, sformula, testcases, data, varsNorm, varsParse, varsGen, varsRun, varsBlocks>>
MergeTestcases ==
  /\ spc = "parsed"
  /\ testcases' = merge_testcases_by_requirement(all_rows, <<>>)
  /\ spc' = "merged"
  /\ UNCHANGED <<seed, sformula, all_rows, data, varsNorm, varsParse, varsGen, varsRun, varsBlocks>>
MatchAndExtractResults ==
  /\ spc = "merged"
  /\ testcases' = [k \in DOMAIN testcases |-> MatchOne(testcases[k], sformula)]
  /\ spc' = "matched"
  /\ UNCHANGED <<seed, sformula, all_rows, data, varsNorm, varsParse, varsGen, varsRun, varsBlocks>>
GenerateExcel ==
  /\ spc = "matched"
  /\ data' = generate_excel(testcases)
  /\ spc' = "written"
  /\ UNCHANGED <<seed, sformula, all_rows, testcases, varsNorm, varsParse, varsGen, varsRun, varsBlocks>>
NextSeed == ParseTestcaseToJson \/ MergeTestcases \/ MatchAndExtractResults \/ GenerateExcel
SpecSeed == InitSeed /\ [][NextSeed]_vars

\* ------------------------------------------------- generate_mcdc_cases
\* the decisions of the modules that are synthesized
D_basic == <<"A",">","B">>
D_const == <<"X",">","K">>
D_mixed == <<"X",">","A">>
D_raise == <<"A",">","B","&","&","U",">","B">>
D_pair == <<"A",">","=","N","&","&","B",">","=","N">>
D_unknown == <<"A",">","B","&","&","(","A",">","=","B","|","|","U",">","B",")">>
D_unknownOnly == <<"U",">","B">>
D_constOnly == <<"K",">","N","|","|","A",">","=","N">>
D_last == <<"l","a","s","t","(","A",")",">","A">>
D_literal == <<"A",">","1">>
D_not == <<"!","(","A",">","B",")","&","&","B","<","=","A">>
D_compound == <<"A","-","B",">","=","N">>
D_noVars == <<"U",">","V">>
D_inside == <<"C",">","1","&","&","E","<","1">>
D_constGe == <<"X",">","=","K">>
D_lower == <<"l","a","s","t","(","A",")",">","a">>
D_paren == <<"(","A","+","B",")",">","N">>
D_taut == <<"A",">","=","B","|","|","B",">","A">>
D_masked == <<"A",">","N","|","|","B",">","=","N">>
D_second == <<"B",">","A">>
D_three == <<"C","-","A","-","B",">","=","A">>
D_divide == <<"A","/","C",">","B">>
D_durOr == <<"A",">","B","|","|","d","u","r","a","t","i","o","n","(","A",")">>
D_durAnd == <<"A",">","B","&","&","d","u","r","a","t","i","o","n","(","A",")">>
D_abs == <<"a","b","s","(","A","-","B",")",">","=","N">>
D_mixedOps == <<"A","+","B","-","C",">","=","A">>

\* if (D) {y=1} else {y=0}
IfStatement(d) ==
  <<"i","f"," ","(">> \o d \o <<")"," ","{","y","=","1","}"," ","e","l","s","e"," ","{","y","=","0","}">>
\* a call of a function whose name ends in if, and two if statements with
\* nothing between them
F_word == <<"y","=","e","l","i","f","(","A",">","B",")">>
F_adjacent == <<"i","f","(","A",">","B",")","i","f","(","B",">","A",")","{","y","=","1","}">>
\* an if statement inside the then block of another
F_nested == <<"i","f"," ","(","A",">","B",")"," ","{","i","f"," ","(","B",">","A",")"," ","{","y","=","1","}","}">>
Formulas ==
  {IfStatement(d) : d \in {D_basic, D_const, D_mixed, D_raise, D_pair, D_unknown, D_unknownOnly, D_constOnly, D_last,
                           D_literal, D_not, D_compound, D_noVars, D_inside,
                           D_constGe, D_lower, D_paren, D_taut, D_masked,
                           D_three, D_mixedOps, D_divide, D_durOr, D_durAnd, D_abs}}
    \cup {IfStatement(D_basic) \o <<"\n">> \o IfStatement(D_second),
          IfStatement(D_noVars) \o <<"\n">> \o IfStatement(D_second),
          <<"y","=","1">>,
          F_word, F_adjacent, F_nested,
          <<"i","f"," ","(","A",">","B"," ","{","y","=","1","}">>}

\* the module the formula belongs to
Module == [number |-> "R1", name |-> "M1", precondition |-> "none",
           inputs |-> {<<"A">>, <<"B">>, <<"X">>}]

Diag(tag, d, a) == [tag |-> tag, d |-> d, a |-> a]

Init ==
  /\ formula \in Formulas /\ pc = "start" /\ if_conditions = <<>> /\ idx = 0 /\ condition = <<>>
  /\ variables = <<>> /\ processed_condition = <<>> /\ parsed = EmptyParse /\ s = <<>>
  /\ aidx = 0 /\ model_true = NoModel /\ test_conditions = <<>> /\ mcdc_conditions = <<>>
  /\ test_cases = <<>> /\ log = <<>> /\ run = 1 /\ first_run = <<>> /\ sheet = <<>>
  /\ IdleNorm /\ IdleParse /\ IdleBlocks /\ IdleSeed

\* the guard on the formula and extract_if_conditions; None is returned when
\* there is no if or no decision
ExtractConditions ==
  /\ pc = "start"
  /\ IF formula = <<>> \/ Find(formula, <<"i","f">>) = -1
     THEN /\ pc' = "returned_none"
          /\ log' = Append(log, Diag("no_if", 0, 0))
          /\ UNCHANGED <<if_conditions, idx>>
     ELSE LET conds == extract_if_conditions(formula)
          IN /\ if_conditions' = conds
             /\ IF conds = <<>>
                THEN pc' = "returned_none" /\ log' = Append(log, Diag("no_condition", 0, 0))
                                           /\ idx' = idx
                ELSE pc' = "loop" /\ idx' = 1 /\ log' = log
  /\ UNCHANGED <<formula, condition, variables, processed_condition, parsed, s, aidx,
                 model_true, test_conditions, mcdc_conditions, test_cases>>
  /\ UNCHANGED <<varsNorm, varsParse, varsRun, varsBlocks, varsSeed>>

\* the warnings _parse_condition prints, in the order it visits the set
RECURSIVE UnknownWarnings(_, _)
UnknownWarnings(order, d) ==
  IF order = <<>> THEN <<>>
  ELSE (IF Known(Head(order)) THEN <<>> ELSE <<Diag("unknown_identifier", d, 0)>>)
         \o UnknownWarnings(Tail(order), d)

\* the filter of generate_mcdc_cases on the entries _parse_condition returned
InputVars(vs) ==
  SelectSeq(vs, LAMBDA var :
    LET var_name_to_check == IF var.is_last THEN var.original_var ELSE var.name
    IN \/ var_name_to_check \in Module.inputs
       \/ var_name_to_check \in DOMAIN DM_variables
       \/ var_name_to_check \in DOMAIN DM_constants)

\* one iteration head: _parse_condition on the next decision and the filter;
\* a decision without any known identifier is skipped
ParseCondition ==
  /\ pc = "loop"
  /\ idx <= Len(if_conditions)
  /\ LET cond == if_conditions[idx]
         canon == Normalize(cond)
     IN \E order \in Orders(Identifiers(canon)) :
          LET input_vars == InputVars(VariablesOf(order))
              warned == log \o UnknownWarnings(order, idx)
          IN /\ condition' = cond
             /\ processed_condition' = canon
             /\ variables' = input_vars
             /\ IF input_vars = <<>>
                THEN /\ log' = Append(warned, Diag("no_variables", idx, 0))
                     /\ idx' = idx + 1
                     /\ pc' = "loop"
                ELSE /\ log' = warned
                     /\ idx' = idx
                     /\ pc' = "generate"
  /\ UNCHANGED <<formula, if_conditions, parsed, s, aidx, model_true, test_conditions,
                 mcdc_conditions, test_cases>>
  /\ UNCHANGED <<varsNorm, varsParse, varsRun, varsBlocks, varsSeed>>

\* the warnings build_z3_expression prints for the atoms of the decision that
\* have a side resolve_variable cannot resolve, from atom k on
RECURSIVE BuildWarnings(_, _, _, _)
BuildWarnings(k, p, vs, d) ==
  IF k > Len(p.atoms) THEN <<>>
  ELSE (IF k \in ExprAtoms(p.root, p.ph, Len(p.atoms)) /\ ~Resolved(vs, p.atoms[k])
        THEN <<Diag("unresolved", d, k - 1)>> ELSE <<>>)
         \o BuildWarnings(k + 1, p, vs, d)

\* _generate_mcdc_conditions up to base_expr: preprocessing, the solver with
\* the range constraints, the structure, and the guarded build of the decision
BeginGenerate ==
  /\ pc = "generate"
  /\ LET p == extract_expression_structure(preprocess_condition(processed_condition))
         warned == log \o BuildWarnings(1, p, variables, idx)
     IN /\ parsed' = p
        /\ s' = <<RangeConstraints(variables)>>
        /\ aidx' = 0
        /\ test_conditions' = <<>>
        /\ IF BuildRaises(variables, p)
           THEN /\ log' = Append(warned, Diag("build_error", idx, 0))
                /\ mcdc_conditions' = <<>>
                /\ pc' = "emit"
           ELSE /\ log' = warned
                /\ mcdc_conditions' = mcdc_conditions
                /\ pc' = "atom"
  /\ UNCHANGED <<formula, if_conditions, idx, condition, variables, processed_condition,
                 model_true, test_cases>>
  /\ UNCHANGED <<varsNorm, varsParse, varsRun, varsBlocks, varsSeed>>

Push(st) == Append(st, <<>>)
\* Pop that leaves the frame on the stack
Pop_Keep(st) == st
Pop(st) == SubSeq(st, 1, Len(st) - 1)
Add(st, c) == [st EXCEPT ![Len(st)] = Append(@, c)]

\* an atom's iteration up to the first check: constant-only atoms are skipped;
\* otherwise push, assert the atom and the decision, check; on sat keep the
\* model, pop, push and assert both negations
AtomLeg1 ==
  /\ pc = "atom"
  /\ aidx < Len(parsed.atoms)
  /\ LET atom == parsed.atoms[aidx + 1]
         left_var == get_var_name(variables, atom[1])
         right_var == get_var_name(variables, atom[3])
         s1 == Add(Add(Push(s), AtomC(aidx + 1, TRUE)), BaseC(TRUE))
         models == Models(variables, parsed, s1)
         warned == IF Resolved(variables, atom) THEN log
                   ELSE Append(log, Diag("unresolved", idx, aidx))
     IN IF left_var = <<>> /\ right_var = <<>>
        THEN /\ log' = Append(log, Diag("constant_atom", idx, aidx))
             /\ aidx' = aidx + 1
             /\ UNCHANGED <<pc, s, model_true>>
        ELSE IF AtomRaises(variables, atom)
        THEN /\ pc' = "raised"
             /\ UNCHANGED <<log, aidx, s, model_true>>
        ELSE IF models # {}
        THEN /\ \E m \in models : model_true' = m
             /\ s' = Add(Add(Push(Pop(s1)), AtomC(aidx + 1, FALSE)), BaseC(FALSE))
             /\ pc' = "leg2"
             /\ log' = warned
             /\ aidx' = aidx
        ELSE /\ s' = Pop(s1)
             /\ log' = Append(warned, Diag("no_influence", idx, aidx))
             /\ aidx' = aidx + 1
             /\ UNCHANGED <<pc, model_true>>
  /\ UNCHANGED <<formula, if_conditions, idx, condition, variables, processed_condition,
                 parsed, test_conditions, mcdc_conditions, test_cases>>
  /\ UNCHANGED <<varsNorm, varsParse, varsRun, varsBlocks, varsSeed>>

\* the second check: on sat the pair of test cases is built from the two
\* models and appended; the frame is popped either way
AtomLeg2 ==
  /\ pc = "leg2"
  /\ LET models == Models(variables, parsed, s)
         decls == ModelDecls(variables, parsed, s)
         atom == parsed.atoms[aidx + 1]
     IN IF models # {}
        THEN \E model_false \in models :
               LET tc_true == TrueCase(variables, variables, decls, model_true)
                   tc_false == FalseCase(variables, variables, decls, model_false, tc_true)
               IN /\ test_conditions' = Append(test_conditions, <<tc_true, tc_false>>)
                  /\ log' = Append(log, Diag("generated", idx, aidx))
        ELSE UNCHANGED <<test_conditions, log>>
  /\ s' = Pop(s)
  /\ aidx' = aidx + 1
  /\ pc' = "atom"
  /\ UNCHANGED <<formula, if_conditions, idx, condition, variables, processed_condition,
                 parsed, model_true, mcdc_conditions, test_cases>>
  /\ UNCHANGED <<varsNorm, varsParse, varsRun, varsBlocks, varsSeed>>

\* return test_conditions
ReturnConditions ==
  /\ pc = "atom"
  /\ aidx = Len(parsed.atoms)
  /\ mcdc_conditions' = test_conditions
  /\ pc' = "emit"
  /\ UNCHANGED <<formula, if_conditions, idx, condition, variables, processed_condition,
                 parsed, s, aidx, model_true, test_conditions, test_cases, log>>
  /\ UNCHANGED <<varsNorm, varsParse, varsRun, varsBlocks, varsSeed>>

Record(cond, text, expected) ==
  [number |-> Module.number, name |-> Module.name, precondition |-> Module.precondition,
   condition |-> cond, test_case |-> text, expected |-> expected]

\* the label of one test case: eval of the canonical text in its environment
Label(text, test_case) ==
  LET r == PyEval(text, EvalEnv(test_case))
  IN IF r.e # "" THEN r.e ELSE IF QTruthy(r.v) THEN "True" ELSE "False"

\* the records made of a pair's two assignment strings and labels: the loop
\* stops at the first label whose eval raised
PairOf(cond, t1, t2, l1, l2, swapped) ==
  IF l1 \notin {"True", "False"} THEN [recs |-> <<>>, raised |-> TRUE]
  ELSE IF l2 \notin {"True", "False"}
       THEN [recs |-> <<Record(cond, t1, l1)>>, raised |-> TRUE]
  ELSE IF swapped
       THEN [recs |-> <<Record(cond, t2, l2), Record(cond, t1, l1)>>, raised |-> FALSE]
  ELSE [recs |-> <<Record(cond, t1, l1), Record(cond, t2, l2)>>, raised |-> FALSE]

\* PairRecords with v- written before v+
PairRecords_Swapped(pair, cond, text) ==
  PairOf(cond, _format_test_case(pair[1]), _format_test_case(pair[2]),
         Label(text, pair[1]), Label(text, pair[2]), TRUE)

\* the two records of one pair, v+ first; a record exists only when the eval
\* of its label returned
PairRecords(pair, cond, text) ==
  PairOf(cond, _format_test_case(pair[1]), _format_test_case(pair[2]),
         Label(text, pair[1]), Label(text, pair[2]), FALSE)

\* the records of every pair, in order, up to the first eval that raises
RECURSIVE RecordsOf(_, _, _)
RecordsOf(pairs, cond, text) ==
  IF pairs = <<>> THEN [recs |-> <<>>, raised |-> FALSE]
  ELSE LET h == PairRecords(Head(pairs), cond, text)
       IN IF h.raised THEN h
          ELSE LET rest == RecordsOf(Tail(pairs), cond, text)
               IN [recs |-> h.recs \o rest.recs, raised |-> rest.raised]

\* the loop over mcdc_conditions; an exception of eval leaves the function
EmitRecords ==
  /\ pc = "emit"
  /\ LET r == RecordsOf(mcdc_conditions, condition, processed_condition)
     IN /\ test_cases' = test_cases \o r.recs
        /\ pc' = IF r.raised THEN "raised" ELSE "emitted"
  /\ UNCHANGED <<formula, if_conditions, idx, condition, variables, processed_condition,
                 parsed, s, aidx, model_true, test_conditions, mcdc_conditions, log>>
  /\ UNCHANGED <<varsNorm, varsParse, varsRun, varsBlocks, varsSeed>>

\* the for loop moves to the next decision
NextDecision ==
  /\ pc = "emitted"
  /\ idx' = idx + 1
  /\ pc' = "loop"
  /\ UNCHANGED <<formula, if_conditions, condition, variables, processed_condition,
                 parsed, s, aidx, model_true, test_conditions, mcdc_conditions, test_cases, log>>
  /\ UNCHANGED <<varsNorm, varsParse, varsRun, varsBlocks, varsSeed>>

\* return test_cases
ReturnCases ==
  /\ pc = "loop"
  /\ idx > Len(if_conditions)
  /\ pc' = "returned"
  /\ UNCHANGED <<formula, if_conditions, idx, condition, variables, processed_condition,
                 parsed, s, aidx, model_true, test_conditions, mcdc_conditions, test_cases, log>>
  /\ UNCHANGED <<varsNorm, varsParse, varsRun, varsBlocks, varsSeed>>

\* the row export_to_excel builds from a record
Row(test_case) ==
  <<test_case.number, test_case.name, test_case.precondition, test_case.condition,
    test_case.test_case, test_case.expected>>
RECURSIVE Rows(_)
Rows(cases) == IF cases = <<>> THEN <<>> ELSE <<Row(Head(cases))>> \o Rows(Tail(cases))

\* export_to_excel(test_cases, module): one row per record, in list order
ExportToExcel ==
  /\ pc = "returned"
  /\ sheet' = sheet \o Rows(test_cases)
  /\ pc' = "exported"
  /\ UNCHANGED <<formula, if_conditions, idx, condition, variables, processed_condition,
                 parsed, s, aidx, model_true, test_conditions, mcdc_conditions, test_cases, log>>
  /\ UNCHANGED <<run, first_run, varsNorm, varsParse, varsBlocks, varsSeed>>

Next ==
  \/ ExtractConditions
  \/ ParseCondition
  \/ BeginGenerate
  \/ AtomLeg1
  \/ AtomLeg2
  \/ ReturnConditions
  \/ EmitRecords
  \/ NextDecision
  \/ ReturnCases
  \/ ExportToExcel
Spec == Init /\ [][Next]_vars

\* ------------------------------------------ the same module, run twice
DetFormulas == {IfStatement(D_basic), IfStatement(D_const), IfStatement(D_last)}
InitDet == Init /\ formula \in DetFormulas

\* generate_mcdc_cases is called again on the same module and catalog: what
\* the first call returned is kept and every local starts afresh
Rerun ==
  /\ pc = "returned"
  /\ run = 1
  /\ first_run' = test_cases
  /\ run' = 2
  /\ pc' = "start"
  /\ if_conditions' = <<>> /\ idx' = 0 /\ condition' = <<>> /\ variables' = <<>>
  /\ processed_condition' = <<>> /\ parsed' = EmptyParse /\ s' = <<>> /\ aidx' = 0
  /\ model_true' = NoModel /\ test_conditions' = <<>> /\ mcdc_conditions' = <<>>
  /\ test_cases' = <<>> /\ log' = <<>>
  /\ UNCHANGED <<formula, sheet, varsNorm, varsParse, varsBlocks, varsSeed>>

NextDet == Next \/ Rerun
SpecDet == InitDet /\ [][NextDet]_vars

\* ------------------------------------------------------------ properties
\* the atom (0-based) of the k-th pair of the current decision: the k-th
\* "generated" diagnostic printed for the decision names it
GeneratedAtoms ==
  LET g == SelectSeq(log, LAMBDA e : e.tag = "generated" /\ e.d = idx)
  IN [k \in DOMAIN g |-> g[k].a]

\* the truth value a text takes on an assignment when it is read as source
SourceTruth(text, test_case) ==
  LET r == PyEval(text, EvalEnv(test_case))
  IN IF r.e # "" THEN "error" ELSE IF QTruthy(r.v) THEN "true" ELSE "false"
AtomText(atom) == atom[1] \o <<" ">> \o atom[2] \o <<" ">> \o atom[3]
AtomTruth(a, test_case) == SourceTruth(AtomText(parsed.atoms[a + 1]), test_case)
DecisionTruth(test_case) == SourceTruth(processed_condition, test_case)

\* the records of test_cases that carry a decision's text
RecordsFor(cond) == SelectSeq(test_cases, LAMBDA r : r.condition = cond)

\* C1: for every pair (v+, v-) returned for an atom of a decision, the source
\* atom is true on v+ and false on v-, and the source decision takes
\* different values on v+ and on v-.
C1_PairFlipsSource ==
  pc = "emit" =>
    \A k \in DOMAIN mcdc_conditions :
      LET a == GeneratedAtoms[k]
          vp == mcdc_conditions[k][1]
          vm == mcdc_conditions[k][2]
      IN /\ AtomTruth(a, vp) = "true"
         /\ AtomTruth(a, vm) = "false"
         /\ DecisionTruth(vp) # DecisionTruth(vm)

\* C2: for every pair (v+, v-) returned for an atom of a decision with two or
\* more atoms, every other atom has the same truth value on v+ and on v-.
C2_OtherAtomsFrozen ==
  (pc = "emit" /\ Len(parsed.atoms) >= 2) =>
    \A k \in DOMAIN mcdc_conditions :
      \A j \in 0..(Len(parsed.atoms) - 1) :
        j # GeneratedAtoms[k] =>
          AtomTruth(j, mcdc_conditions[k][1]) = AtomTruth(j, mcdc_conditions[k][2])

\* C3: in the records of a decision the expected result is "True" or "False",
\* the first record of every pair is labelled "True" and the second "False".
C3_LabelsFollowSolver ==
  pc = "emitted" =>
    LET recs == RecordsFor(condition)
    IN \A k \in DOMAIN mcdc_conditions :
         /\ 2 * k <= Len(recs)
         /\ recs[2 * k - 1].expected = "True"
         /\ recs[2 * k].expected = "False"

\* the items of the test cases collected so far
CollectedItems ==
  UNION {UNION {{test_conditions[k][side][i] : i \in DOMAIN test_conditions[k][side]}
                  : side \in 1..2} : k \in DOMAIN test_conditions}
ItemEntry(item) == EntryOf(variables, item.name)

Ranged(m) ==
  \A k \in DOMAIN RangeConstraints(variables) :
    Holds(variables, parsed, RangeConstraints(variables)[k], m)
FeasibleAtoms ==
  {a \in 0..(Len(parsed.atoms) - 1) :
     LET atom == parsed.atoms[a + 1]
     IN /\ get_var_name(variables, atom[1]) # <<>> \/ get_var_name(variables, atom[3]) # <<>>
        /\ \E m \in Universe(variables, parsed) :
             Ranged(m) /\ AtomValue(variables, atom, m) /\ BaseValue(variables, parsed, m)
        /\ \E m \in Universe(variables, parsed) :
             Ranged(m) /\ ~AtomValue(variables, atom, m) /\ ~BaseValue(variables, parsed, m)}
\* the atoms (0-based) whose text holds an identifier that is not a constant
VariableAtoms ==
  {a \in 0..(Len(parsed.atoms) - 1) :
     \E id \in Identifiers(AtomText(parsed.atoms[a + 1])) : id \notin DOMAIN DM_constants}

DecisionPos(cond) ==
  CHOOSE k \in DOMAIN if_conditions :
    if_conditions[k] = cond /\ \A j \in DOMAIN if_conditions : if_conditions[j] = cond => k <= j

\* C6: the records are ordered by the decision's position in the formula, then
\* by the atom's position in the decision, v+ immediately before v- of the
\* same atom, and the worksheet receives them in that order.
C6_RecordOrder ==
  /\ pc \in {"emitted", "returned", "exported"} =>
       \A i, j \in DOMAIN test_cases :
         i < j => DecisionPos(test_cases[i].condition) <= DecisionPos(test_cases[j].condition)
  /\ pc = "emitted" =>
       LET recs == RecordsFor(condition)
       IN /\ Len(recs) = 2 * Len(mcdc_conditions)
          /\ \A k \in DOMAIN mcdc_conditions :
               /\ recs[2 * k - 1].test_case = _format_test_case(mcdc_conditions[k][1])
               /\ recs[2 * k].test_case = _format_test_case(mcdc_conditions[k][2])
          /\ \A j, k \in DOMAIN GeneratedAtoms : j < k => GeneratedAtoms[j] < GeneratedAtoms[k]
  /\ pc = "exported" =>
       /\ Len(sheet) = Len(test_cases)
       /\ \A i \in DOMAIN sheet : sheet[i] = Row(test_cases[i])

\* the worksheet holds at least four rows and they come from two decisions
C6_Witness ==
  /\ pc = "exported"
  /\ Len(sheet) >= 4
  /\ \E i \in DOMAIN test_cases : test_cases[i].condition # test_cases[1].condition

\* C7: two runs of generate_mcdc_cases on the same module and catalog return
\* the same sequence of records.
C7_Deterministic == (run = 2 /\ pc = "returned") => test_cases = first_run

\* the condition strings on which no pass writes a word operator: without
\* its whitespace the text has no &&, no ||, no last( call, and every ! is the
\* one of a != that no further = follows
NoWordOperator(x) ==
  LET y == RemoveSpaces(x)
  IN /\ Find(y, <<"&","&">>) = -1
     /\ Find(y, <<"|","|">>) = -1
     /\ Find(y, <<"l","a","s","t","(">>) = -1
     /\ \A i \in DOMAIN y :
          y[i] = "!" => /\ i < Len(y) /\ y[i + 1] = "="
                        /\ (i + 1 < Len(y) => y[i + 2] # "=")

C10_UnknownIdentifierSkips ==
  (pc = "emitted" /\ \E id \in Identifiers(processed_condition) : ~Known(id)) =>
    /\ \E k \in DOMAIN log : log[k].tag = "unknown_identifier" /\ log[k].d = idx
    /\ RecordsFor(condition) = <<>>

\* C11: generate_mcdc_cases never raises: no decision makes an exception
\* leave the function.
C11_NeverRaises == pc # "raised"

\* an atom that compares a catalog variable with a whole-number literal lying
\* strictly inside the variable's range
IsDigits(x) == x # <<>> /\ \A i \in DOMAIN x : x[i] \in Digits
LiteralAtom(atom) ==
  /\ atom[1] \in DOMAIN DM_variables
  /\ IsDigits(atom[3])
  /\ DM_variables[atom[1]].min_value < NumberOf(atom[3], 1, 0, 0).n * Scale
  /\ NumberOf(atom[3], 1, 0, 0).n * Scale < DM_variables[atom[1]].max_value

\* C12: a single atom, or a conjunction of atoms over distinct variables, that
\* compare a variable with a literal strictly inside its range gets one pair
\* per atom: two records for one atom, four for two.
C12_LiteralAtomsGetPairs ==
  ( /\ pc = "emitted"
    /\ parsed.atoms # <<>>
    /\ \A k \in DOMAIN parsed.atoms : LiteralAtom(parsed.atoms[k])
    /\ \A j, k \in DOMAIN parsed.atoms : j # k => parsed.atoms[j][1] # parsed.atoms[k][1]
    /\ parsed.root[1] = "ATOM" \/ parsed.ph[parsed.root].op = "and" )
  => Len(RecordsFor(condition)) = 2 * Len(parsed.atoms)

\* the value an assignment gives a name
ValueIn(test_case, name) ==
  test_case[CHOOSE i \in DOMAIN test_case : test_case[i].name = name].val.v

\* C13: for a decision X >= K with X a real variable and K a constant inside
\* X's range above its minimum, one pair is returned, X >= K in the first
\* assignment and X < K in the second, K being the catalog's value.
C13_ConstantExact ==
  ( /\ pc = "emit"
    /\ Len(parsed.atoms) = 1
    /\ parsed.atoms[1][2] = <<">","=">>
    /\ parsed.atoms[1][1] \in DOMAIN DM_variables
    /\ DM_variables[parsed.atoms[1][1]].var_type = "real"
    /\ parsed.atoms[1][3] \in DOMAIN DM_constants
    /\ DM_variables[parsed.atoms[1][1]].min_value < DM_constants[parsed.atoms[1][3]]
    /\ DM_constants[parsed.atoms[1][3]] <= DM_variables[parsed.atoms[1][1]].max_value )
  => /\ Len(mcdc_conditions) = 1
     /\ ValueIn(mcdc_conditions[1][1], parsed.atoms[1][1]) >= DM_constants[parsed.atoms[1][3]]
     /\ ValueIn(mcdc_conditions[1][2], parsed.atoms[1][1]) < DM_constants[parsed.atoms[1][3]]

\* C14: for every last(X) of the decision the alias _X_ is an entry and a
\* solver symbol of its own, with X's type and X's range as its constraints,
\* and every collected value of an alias lies within X's range.
C14_AliasOwnSymbol ==
  /\ \A id \in Identifiers(processed_condition) :
       (is_last_var(id) /\ original_var_name(id) \in DOMAIN DM_variables /\ variables # <<>>) =>
         LET decl == DM_variables[original_var_name(id)]
         IN /\ id # original_var_name(id)
            /\ id \in Symbols(variables)
            /\ EntryOf(variables, id).var_type = decl.var_type
            /\ EntryOf(variables, id).min_value = decl.min_value
            /\ EntryOf(variables, id).max_value = decl.max_value
            /\ SortOf(variables, id) = decl.var_type
            /\ \E k \in DOMAIN RangeConstraints(variables) :
                 RangeConstraints(variables)[k] = Bound("ge", id, decl.min_value)
            /\ \E k \in DOMAIN RangeConstraints(variables) :
                 RangeConstraints(variables)[k] = Bound("le", id, decl.max_value)
  /\ \A item \in CollectedItems :
       is_last_var(item.name) =>
         /\ DM_variables[original_var_name(item.name)].min_value <= item.val.v
         /\ item.val.v <= DM_variables[original_var_name(item.name)].max_value

\* one collected assignment gives last(X) and X different values
C14_Witness ==
  \E k \in DOMAIN test_conditions : \E side \in 1..2 :
    \E i, j \in DOMAIN test_conditions[k][side] :
      LET alias == test_conditions[k][side][i]
          plain == test_conditions[k][side][j]
      IN /\ is_last_var(alias.name)
         /\ plain.name = original_var_name(alias.name)
         /\ alias.val.v # plain.val.v

\* the symbols of an assignment string, in the order in which they appear
RECURSIVE ShownNamesOf(_)
ShownNamesOf(parts) ==
  IF parts = <<>> THEN <<>>
  ELSE <<Strip(SplitChar(Head(parts), "=")[1])>> \o ShownNamesOf(Tail(parts))
ShownNames(text) == IF text = <<>> THEN <<>> ELSE ShownNamesOf(SplitChar(text, ","))

\* C15: in the assignment string every _X_ entry is shown as last(X) and the
\* symbols, as shown, are in lexicographic order.
C15_ShownSorted ==
  pc = "emit" =>
    \A k \in DOMAIN mcdc_conditions : \A side \in 1..2 :
      LET tc == mcdc_conditions[k][side]
          shown == ShownNames(_format_test_case(tc))
      IN /\ Len(shown) = Len(tc)
         /\ \A i \in DOMAIN tc :
              \E j \in DOMAIN shown :
                shown[j] = IF is_last_var(tc[i].name)
                           THEN <<"l","a","s","t","(">> \o original_var_name(tc[i].name) \o <<")">>
                           ELSE tc[i].name
         /\ \A i, j \in DOMAIN shown : i < j => StrLess(shown[i], shown[j])

\* whether a diagnostic with one of the tags was printed for atom a (0-based)
\* of the current decision
Logged(tags, a) == \E k \in DOMAIN log : log[k].d = idx /\ log[k].a = a /\ log[k].tag \in tags
\* the atoms whose text holds a catalog variable or a last() alias of one
HoldsVariable(atom) ==
  \E id \in Identifiers(AtomText(atom)) : original_var_name(id) \in DOMAIN DM_variables

\* C16: an atom is attempted exactly when one of its sides holds a
\* non-constant catalog identifier; an atom over constants and literals only
\* is set aside and gets no pair.
C16_AttemptedIffVariable ==
  (pc = "emit" /\ ~BuildRaises(variables, parsed)) =>
    \A a \in 0..(Len(parsed.atoms) - 1) :
      /\ ~Logged({"constant_atom"}, a) <=> HoldsVariable(parsed.atoms[a + 1])
      /\ Logged({"constant_atom"}, a) => ~Logged({"generated"}, a)

\* C18: every assignment string of a decision shows a value for every
\* identifier of the decision.
C18_FullAssignment ==
  pc = "emit" =>
    \A k \in DOMAIN mcdc_conditions : \A side \in 1..2 :
      \A id \in Identifiers(processed_condition) :
        \E j \in DOMAIN ShownNames(_format_test_case(mcdc_conditions[k][side])) :
          ShownNames(_format_test_case(mcdc_conditions[k][side]))[j] = display_name(id)

\* C19: for every atom of a decision either a pair is returned or a
\* diagnostic about the atom is printed, and not both.
C19_PairOrDiagnostic ==
  (pc = "emit" /\ ~BuildRaises(variables, parsed)) =>
    \A a \in 0..(Len(parsed.atoms) - 1) :
      Logged({"generated"}, a) # Logged({"constant_atom", "no_influence", "unresolved"}, a)

\* C20: when an atom's iteration starts the solver holds the range
\* constraints alone, the second leg works in one frame above them, and the
\* loop ends only after the last atom.
C20_FramesBalanced ==
  /\ pc = "atom" => s = <<RangeConstraints(variables)>>
  /\ pc = "leg2" => (Len(s) = 2 /\ s[1] = RangeConstraints(variables))
  /\ (pc = "emit" /\ ~BuildRaises(variables, parsed)) =>
       (aidx = Len(parsed.atoms) /\ s = <<RangeConstraints(variables)>>)

\* an atom got its pair after an earlier atom of the decision had no model
\* in its first leg
C20_Witness ==
  /\ pc = "atom"
  /\ \E j, k \in 0..(Len(parsed.atoms) - 1) :
       j < k /\ Logged({"no_influence"}, j) /\ Logged({"generated"}, k)

\* whether the keyword if stands at 0-based offset i: the two letters, not
\* part of a longer word
IfKeywordAt(text, i) ==
  /\ StartsAt(text, i, <<"i","f">>)
  /\ i = 0 \/ text[i] \notin WordChar
  /\ i + 2 >= Len(text) \/ text[i + 3] \notin WordChar
\* the 0-based offset of the parenthesis that opens the group of the if at
\* offset i, -1 when something else follows the keyword
GroupAfter(text, i) ==
  LET j == i + 2 + SpaceRun(text, i + 3)
  IN IF j < Len(text) /\ text[j + 1] = "(" THEN j ELSE -1
\* the groups of the if keywords of the text from offset i on, in text order
RECURSIVE IfGroupsFrom(_, _)
IfGroupsFrom(text, i) ==
  IF i >= Len(text) THEN <<>>
  ELSE IF IfKeywordAt(text, i) /\ GroupAfter(text, i) # -1
          /\ CloseParen(text, GroupAfter(text, i) + 1, 1).count = 0
       THEN <<Strip(Slice(text, GroupAfter(text, i) + 1,
                          CloseParen(text, GroupAfter(text, i) + 1, 1).pos - 1))>>
              \o IfGroupsFrom(text, i + 1)
       ELSE IfGroupsFrom(text, i + 1)

\* C21: extract_if_conditions returns, in text order, one decision for each
\* if keyword followed by a balanced parenthesized group, the text between
\* the group's parentheses, and nothing else.
C21_OneDecisionPerIf ==
  pc \notin {"idle", "start"} => if_conditions = IfGroupsFrom(formula, 0)

\* the number of blocks that are open at 0-based offset i of the text
RECURSIVE BraceDepth(_, _)
BraceDepth(text, i) ==
  IF i <= 0 THEN 0
  ELSE BraceDepth(text, i - 1)
         + (IF text[i] = "{" THEN 1 ELSE IF text[i] = "}" THEN -1 ELSE 0)
\* the offsets of the if keywords that have a balanced group
IfOffsets(text) ==
  {i \in 0..(Len(text) - 1) :
     /\ IfKeywordAt(text, i) /\ GroupAfter(text, i) # -1
     /\ CloseParen(text, GroupAfter(text, i) + 1, 1).count = 0}
GroupText(text, i) ==
  Strip(Slice(text, GroupAfter(text, i) + 1, CloseParen(text, GroupAfter(text, i) + 1, 1).pos - 1))
\* the block that follows the group of the if at offset i: from the first
\* brace after the group to the brace that brings the depth back
BlockAfter(text, i) ==
  LET open == FindFrom(text, <<"{">>, CloseParen(text, GroupAfter(text, i) + 1, 1).pos)
      ends == {j \in (open + 1)..(Len(text) - 1) :
                 BraceDepth(text, j + 1) = BraceDepth(text, open)}
  IN IF open = -1 \/ ends = {} THEN <<>>
     ELSE Slice(text, open + 1, CHOOSE j \in ends : \A k \in ends : j <= k)

\* C22: an if statement nested in a block belongs to the block: the then
\* block extract_code_blocks returns for the enclosing decision holds the
\* nested statement whole, and the nested decision is not a decision of the
\* module.
C22_NestedIfStaysInBlock ==
  pc \notin {"idle", "start"} =>
    \A i \in IfOffsets(formula) :
      IF BraceDepth(formula, i) = 0
      THEN extract_code_blocks(formula, GroupText(formula, i)).true_result
             = BlockAfter(formula, i)
      ELSE \A k \in DOMAIN if_conditions : if_conditions[k] # GroupText(formula, i)

\* the offset of the brace that closes the block opened at offset open, -1
\* when the text ends before the depth is back
CloseOf(text, open) ==
  LET ends == {j \in (open + 1)..(Len(text) - 1) :
                 BraceDepth(text, j + 1) = BraceDepth(text, open)}
  IN IF ends = {} THEN -1 ELSE CHOOSE j \in ends : \A k \in ends : j <= k
\* whether the then block or the else block of the if at offset i has no
\* closing brace, in a formula without whitespace
UnbalancedBlocks(text, i) ==
  LET open == FindFrom(text, <<"{">>, CloseParen(text, GroupAfter(text, i) + 1, 1).pos)
      close == CloseOf(text, open)
  IN /\ open # -1
     /\ \/ close = -1
        \/ /\ StartsAt(text, close + 1, <<"e","l","s","e","{">>)
           /\ CloseOf(text, close + 5) = -1

\* C23: a decision whose then block or else block has unbalanced braces is
\* dropped: both outcome strings are empty and no row is written for it.
C23_UnbalancedDropped ==
  spc = "written" =>
    \A k \in DOMAIN testcases :
      (\E i \in IfOffsets(sformula) :
         GroupText(sformula, i) = testcases[k].condition /\ UnbalancedBlocks(sformula, i))
      => /\ testcases[k].true_result = <<>>
         /\ testcases[k].false_result = <<>>
         /\ \A r \in DOMAIN data :
              data[r].condition \notin {testcases[k].condition,
                                        <<"!","(">> \o testcases[k].condition \o <<")">>}

\* a condition in Python's words: ! as not, && as and, || as or
RECURSIVE InPython(_)
InPython(c) ==
  IF c = <<>> THEN <<>>
  ELSE IF StartsAt(c, 0, <<"&","&">>) THEN <<" ","a","n","d"," ">> \o InPython(SubSeq(c, 3, Len(c)))
  ELSE IF StartsAt(c, 0, <<"|","|">>) THEN <<" ","o","r"," ">> \o InPython(SubSeq(c, 3, Len(c)))
  ELSE IF Head(c) = "!" THEN <<" ","n","o","t"," ">> \o InPython(Tail(c))
  ELSE <<Head(c)>> \o InPython(Tail(c))
\* the truth value of a condition over the flags a and b: "error" when it
\* cannot be read
TruthOf(c, va, vb) ==
  LET r == PyEval(InPython(c), (<<"a">> :> QBool(va)) @@ (<<"b">> :> QBool(vb)))
  IN IF r.e # "" THEN "error" ELSE IF QTruthy(r.v) THEN "True" ELSE "False"
Equivalent(c, d) == \A va, vb \in BOOLEAN : TruthOf(c, va, vb) = TruthOf(d, va, vb)
\* the rows written for seed row k: those with its test case
RowsOfSeed(k) ==
  {r \in DOMAIN data : data[r].test = convert_fraction_to_decimal(all_rows[k].test)}

\* C29: a condition that starts with ! is saved with flag false and without
\* the !, and the decision written for every seed row is equivalent to the
\* row's original condition.
C29_WrittenEquivalent ==
  spc = "written" =>
    \A k \in DOMAIN all_rows :
      /\ all_rows[k].flag = (all_rows[k].original = <<>> \/ Head(all_rows[k].original) # "!")
      /\ ~all_rows[k].flag => all_rows[k].cond = Strip(Tail(all_rows[k].original))
      /\ RowsOfSeed(k) # {}
      /\ \A r \in RowsOfSeed(k) : Equivalent(data[r].condition, all_rows[k].original)

\* the operands of a side: the texts between its arithmetic operators
RECURSIVE OperandsFrom(_, _)
OperandsFrom(side, i) ==
  IF i > Len(side) THEN <<<<>>>>
  ELSE LET rest == OperandsFrom(side, i + 1)
       IN IF \E k \in DOMAIN ArithOps : side[i] = ArithOps[k]
          THEN <<<<>>>> \o rest
          ELSE <<<<side[i]>> \o Head(rest)>> \o Tail(rest)
Operands(side) == OperandsFrom(side, 1)
\* an arithmetic expression over z3_vars names, with at least one operator
Arithmetic(vs, side) ==
  /\ Len(Operands(side)) >= 2
  /\ \A p \in DOMAIN Operands(side) : Strip(Operands(side)[p]) \in Names(vs)
\* the value of the whole side when each name has its z3_vars value
SideValue(vs, side, m) ==
  PyEval(side, [n \in Names(vs) |-> Z3Value(vs, n, m)])

\* C24: an atom side that is an arithmetic expression over catalog
\* identifiers resolves to a term whose value is the arithmetic value of the
\* whole expression under every valuation
C24_SideIsWholeExpression ==
  pc = "emit" =>
    \A k \in DOMAIN parsed.atoms : \A side \in {parsed.atoms[k][1], parsed.atoms[k][3]} :
      Arithmetic(variables, side) =>
        /\ resolve_variable(variables, side).kind = "bin"
        /\ \A m \in Universe(variables, parsed) :
             SideValue(variables, side, m).e = "" =>
               QEq(TermValue(variables, resolve_variable(variables, side), m),
                   SideValue(variables, side, m).v)

\* a side that resolve_variable turns into a division of two Int terms
IntDivision(vs, side) ==
  LET t == resolve_variable(vs, side)
  IN t.kind = "bin" /\ t.op = "/" /\ TermSort(vs, t) = "int"

\* C25: for an atom that divides two integer operands, the truth value the
\* solver gives the atom under a valuation is the truth value that eval gives
\* the atom's text under the same valuation (real division on both sides)
C25_DivisionAgrees ==
  pc = "emit" =>
    \A k \in DOMAIN parsed.atoms :
      (IntDivision(variables, parsed.atoms[k][1]) \/ IntDivision(variables, parsed.atoms[k][3])) =>
        \A m \in Universe(variables, parsed) :
          LET r == SideValue(variables, AtomText(parsed.atoms[k]), m)
          IN r.e = "" => (QTruthy(r.v) <=> AtomValue(variables, parsed.atoms[k], m))

\* the truth value of the preprocessed decision when each name has its
\* z3_vars value: duration(...) reads True there
Preprocessed(vs, text, m) == SideValue(vs, preprocess_condition(text), m)

\* C26: a decision with a duration(...) call is solved as the decision with
\* the constant true in the call's place; when that makes the decision always
\* true no atom yields records
C26_DurationIsTrue ==
  (pc = "emit" /\ Find(processed_condition, <<"d","u","r","a","t","i","o","n","(">>) # -1) =>
    /\ \A m \in Universe(variables, parsed) :
         /\ Preprocessed(variables, processed_condition, m).e = ""
         /\ QTruthy(Preprocessed(variables, processed_condition, m).v)
              <=> BaseValue(variables, parsed, m)
    /\ (\A m \in Universe(variables, parsed) :
          QTruthy(Preprocessed(variables, processed_condition, m).v))
         => mcdc_conditions = <<>>

\* a decision that is one atom abs(E) op R
AbsAtom(text) ==
  /\ StartsAt(text, 0, <<"a","b","s","(">>)
  /\ 4 + NonCloseRun(text, 5) < Len(text)
  /\ Find(text, OpAnd) = -1 /\ Find(text, OpOr) = -1
AbsArg(text) == SubSeq(text, 5, 4 + NonCloseRun(text, 5))
AbsRest(text) == SubSeq(text, 6 + NonCloseRun(text, 5), Len(text))
\* whether |E| op R holds when each name has its z3_vars value
AbsHolds(vs, text, m) ==
  LET v == SideValue(vs, AbsArg(text), m).v
      E == IF QLt(v, Q(0, 1)) THEN <<"-","(">> \o AbsArg(text) \o <<")">>
           ELSE <<"(">> \o AbsArg(text) \o <<")">>
  IN QTruthy(SideValue(vs, E \o AbsRest(text), m).v)
InRange(vs, ps) == Models(vs, ps, <<RangeConstraints(vs)>>)

\* C27: an atom abs(E) op R is true for the solver exactly when |E| op R
\* holds, and it gets a pair whenever both of its truth values are reachable
\* within the ranges
C27_AbsFolded ==
  (pc = "emit" /\ AbsAtom(processed_condition)) =>
    /\ \A m \in Universe(variables, parsed) :
         BaseValue(variables, parsed, m) <=> AbsHolds(variables, processed_condition, m)
    /\ ( /\ \E m \in InRange(variables, parsed) : AbsHolds(variables, processed_condition, m)
         /\ \E m \in InRange(variables, parsed) : ~AbsHolds(variables, processed_condition, m) )
       => mcdc_conditions # <<>>

\* the truth of a text when each variable has its value of m and each
\* constant its catalog value
TruthUnder(vs, text, m) ==
  LET r == PyEval(text, [n \in Names(vs) |->
                           IF IsConstant(vs, n) THEN Ticks(EntryOf(vs, n).constant_value)
                           ELSE Ticks(m[n])])
  IN IF r.e # "" THEN "error" ELSE IF QTruthy(r.v) THEN "true" ELSE "false"
\* m1 and m2 show atom a (0-based) acting alone on the decision
Independence(vs, ps, text, a, m1, m2) ==
  /\ \A k \in DOMAIN ps.atoms :
       /\ TruthUnder(vs, AtomText(ps.atoms[k]), m1) # "error"
       /\ TruthUnder(vs, AtomText(ps.atoms[k]), m2) # "error"
       /\ (k # a + 1) => TruthUnder(vs, AtomText(ps.atoms[k]), m1)
                           = TruthUnder(vs, AtomText(ps.atoms[k]), m2)
  /\ TruthUnder(vs, AtomText(ps.atoms[a + 1]), m1) # TruthUnder(vs, AtomText(ps.atoms[a + 1]), m2)
  /\ {TruthUnder(vs, text, m1), TruthUnder(vs, text, m2)} = {"true", "false"}
Unmasked(vs, ps, text, a) ==
  \E m1, m2 \in InRange(vs, ps) : Independence(vs, ps, text, a, m1, m2)

\* C28: an atom that holds a variable and is not masked (two in-range
\* valuations flip it, keep every other atom and change the decision) gets a
\* pair, also when the atom stands under a negation
C28_UnmaskedGetsPair ==
  pc = "emit" =>
    \A a \in 0..(Len(parsed.atoms) - 1) :
      (HoldsVariable(parsed.atoms[a + 1]) /\ Unmasked(variables, parsed, processed_condition, a))
        => Logged({"generated"}, a)

\* the if statements of the text whose whole decision is the condition
OwnIfs(text, c) == {i \in IfOffsets(text) : GroupText(text, i) = c}
\* the offset just after the then block of the if at offset i
ThenEnd(text, i) ==
  CloseOf(text, FindFrom(text, <<"{">>, CloseParen(text, GroupAfter(text, i) + 1, 1).pos)) + 1

\* C30: the blocks returned for a condition are those of the if statement
\* whose whole decision is the condition, also when the condition's text
\* occurs earlier in the formula
C30_BlocksOfOwnIf ==
  (bpc = "done" /\ bcondition # <<>>) =>
    \A i \in OwnIfs(bformula, bcondition) :
      OwnIfs(bformula, bcondition) = {i} =>
        /\ true_result = BlockAfter(bformula, i)
        /\ false_result # <<>> => false_result = ElseBlock(bformula, ThenEnd(bformula, i))

====
